---------------------------- MODULE Spec2Model ----------------------------
(***************************************************************************)
(* Model of mt-renderer's XFS property-graph deserializer                  *)
(* (src/src/mtserializer.rs) and of the record readers it uses             *)
(* (src/src/util/read_struct.rs, src/src/dti.rs).                          *)
(*                                                                         *)
(* A document is a sequence of bytes.  `deserialize` is a state machine:   *)
(* header -> blob -> schema (one step per pointer-table entry) -> class    *)
(* (the recursive read_class, kept as an explicit call stack) -> done.     *)
(* A run ends with outcome "ok" (a Class is returned), "err" (an           *)
(* anyhow::Error is returned to the caller) or "panic" (assert!, expect,   *)
(* todo! or an out-of-range slice/index unwinds through the caller).       *)
(*                                                                         *)
(* TLC integers are 32-bit signed, so a u32 is kept as two 16-bit halves   *)
(* [lo, hi] and a u64 as four; the bit operations of the code are defined  *)
(* on the halves.                                                          *)
(*                                                                         *)
(* Four specifications: Spec is one deserialize run on a document;         *)
(* CallSpec is one call of a function that keeps no state (the bitfield    *)
(* unpacking, the registry's hash and lookup, read_struct_array,           *)
(* read_null_terminated_string); KeySpec is an InputState                  *)
(* (src/src/input_state.rs) under its calls; ConcSpec is a deserialize run *)
(* followed by two deserialize calls whose steps interleave.               *)
(***************************************************************************)
EXTENDS Integers, Sequences, FiniteSets, TLC

VARIABLES
    input,          \* the bytes behind the reader (the document)
    pos,            \* reader cursor: number of bytes consumed so far
    pc,             \* "header" | "blob" | "schema" | "class" | "done";
                    \* "idle" when no deserialize is running
    outcome,        \* "running" | "ok" | "err" | "panic"
    why,            \* which error or panic ended the run ("" while running)
    errHash,        \* the hash named by the "Couldn't get DTI" error, as <<h>>
    header,         \* <<>> before the header is read, <<Header>> after
    blobAllocated,  \* TRUE once `vec![0u8; database_size]` has run
    database_bytes, \* the database blob
    objects,        \* Vec<ObjectInfo> built so far
    overlays,       \* blob offsets at which a RawObjectInfo was overlaid
    stack,          \* call stack of read_class / read_*_prop frames
    rootCalls,      \* number of top-level read_class calls made
    entry,          \* <<>> or <<e>>: the read_class call entered last
    lastCall,       \* <<>> or <<r>>: the read_class call that returned last
    result,         \* <<>> or <<Class>>: the value deserialize returns
    call,           \* <<>> or <<c>>: a call of one of the pure functions
    ret,            \* the values that call has returned so far
    current_key_state,  \* InputState: the KeyState flags that are set
    frame_mouse_delta,  \* InputState: mouse movement of this frame, <<x, y>>
    lastKeyOp,      \* per flag, the last of set_key / unset_key naming it
    registry,       \* the process-wide static DTI_MAP, as the process holds it
    parked,         \* <<>> or <<p>>: the deserialize call that is not running
    alone           \* <<>> or <<r>>: what deserialize returned when run alone

\* the state of one deserialize run
docVars == << input, pos, pc, outcome, why, errHash, header, blobAllocated,
              database_bytes, objects, overlays, stack, rootCalls, entry,
              lastCall, result >>
\* a call of a pure function and its results
callVars == << call, ret >>
\* an InputState (input_state.rs)
keyVars == << current_key_state, frame_mouse_delta, lastKeyOp >>

\* the registry shared by every call, and the calls that run side by side
concVars == << registry, parked, alone >>

vars == << docVars, callVars, keyVars, concVars >>

(***************************************************************************)
(* Bounds of the model.                                                    *)
(***************************************************************************)
MaxObjectNum == 2     \* header.object_num ranges over 0..MaxObjectNum
MaxArrayLen  == 2     \* array-length prefixes range over 0..MaxArrayLen
MaxTrunc     == 1     \* documents are also cut short by up to this many bytes
MaxProps     == 3     \* schema records have up to this many properties

(***************************************************************************)
(* Bytes and fixed-width integers.                                         *)
(***************************************************************************)

RECURSIVE Pow2(_)
Pow2(n) == IF n = 0 THEN 1 ELSE 2 * Pow2(n - 1)

\* a & b on 16-bit values, bit by bit
RECURSIVE HalfAnd(_, _)
HalfAnd(a, b) ==
    IF a = 0 \/ b = 0 THEN 0
    ELSE (a % 2) * (b % 2) + 2 * HalfAnd(a \div 2, b \div 2)

\* a u32 as its two 16-bit halves
U32(lo, hi) == [lo |-> lo, hi |-> hi]
And32(x, y) == U32(HalfAnd(x.lo, y.lo), HalfAnd(x.hi, y.hi))
Not32(x)    == U32(65535 - x.lo, 65535 - x.hi)
\* x >> n for 0 <= n <= 16
Shr32(x, n) == U32((x.lo \div Pow2(n)) + (x.hi % Pow2(n)) * Pow2(16 - n),
                   x.hi \div Pow2(n))

\* `as usize` of a u32 / u64 (64-bit target).  Every buffer of the model is
\* shorter than HugeIndex, so all larger values are represented by HugeIndex:
\* they compare and index exactly as the true value does.
HugeIndex == 256 * 65536
AsUsize32(x) == IF x.hi > 255 THEN HugeIndex ELSE x.hi * 65536 + x.lo
AsUsize64(x) == IF x.h2 # 0 \/ x.h3 # 0 \/ x.h1 > 255 THEN HugeIndex
                ELSE x.h1 * 65536 + x.h0

\* little-endian decoding of the bytes of b at 0-based offset off
LeU8(b, off)  == b[off + 1]
LeU16(b, off) == b[off + 1] + 256 * b[off + 2]
LeU32(b, off) == U32(LeU16(b, off), LeU16(b, off + 2))
LeU64(b, off) == [h0 |-> LeU16(b, off),     h1 |-> LeU16(b, off + 2),
                  h2 |-> LeU16(b, off + 4), h3 |-> LeU16(b, off + 6)]
\* two's complement reinterpretation (i8, i16, i32)
AsI8(v)  == IF v >= 128 THEN v - 256 ELSE v
\* the i16 read as a u16
AsI16_Unsigned(v) == v
AsI16(v) == IF v >= 32768 THEN v - 65536 ELSE v
AsI32(x) == IF x.hi >= 32768 THEN (x.hi - 65536) * 65536 + x.lo
            ELSE x.hi * 65536 + x.lo
\* `0.0 == f` for the f32 with bit pattern x: true of +0.0 and of -0.0
F32IsZero(x) == x.lo = 0 /\ x.hi \in {0, 32768}

\* &b[from..] : the caller has checked from <= Len(b)
SliceFrom(b, from) == SubSeq(b, from + 1, Len(b))

(***************************************************************************)
(* Type registry (dti.rs).  The generated map comes from src/dti.txt,      *)
(* which is not part of the sources; the one entry the tests name is kept. *)
(***************************************************************************)
BitsetProp32Hash == U32(62706, 23898)                 \* 0x5d5af4f2

DTI_MAP == { [hash |-> BitsetProp32Hash, name |-> "bitset_prop<32>"] }

\* a ^ b on 16-bit values and on u32
HalfXor(a, b) == a + b - 2 * HalfAnd(a, b)
Xor32(x, y) == U32(HalfXor(x.lo, y.lo), HalfXor(x.hi, y.hi))

\* crc32(bytes, seed): the reflected CRC-32 (polynomial 0xedb88320) started
\* from seed, without a final inversion; the register is taken through the
\* bytes one at a time
CrcPoly == U32(33568, 60856)
\* one bit of the CRC register shifted out
CrcShift(c) ==
    IF c.lo % 2 = 1 THEN Xor32(Shr32(c, 1), CrcPoly) ELSE Shr32(c, 1)
\* the register after one more byte
CrcByte(c, byte) ==
    LET bits[k \in 0..8] ==
            IF k = 0 THEN Xor32(c, U32(byte, 0))
            ELSE LET prev == bits[k - 1] IN CrcShift(prev)
    IN  bits[8]
\* name.as_bytes() of the names of the registry
NameBytes(name) ==
    CASE name = "bitset_prop<32>" ->
           << 98, 105, 116, 115, 101, 116, 95, 112, 114, 111, 112, 60, 51,
              50, 62 >>

\* the crc taken as the hash without the mask
MaskHash_None(crc) == crc

\* test_dti_hashes: crc32(..) & 0x7fffffff
MaskHash(crc) == And32(crc, U32(65535, 32767))

\* build.rs, build_dti_map: the map generated from the lines of dti.txt,
\* each line [name, crc]; a line whose crc was handled already is skipped.
\* The map is the set of its entries [hash, name], one per key.
RECURSIVE build_dti_map(_, _, _)
build_dti_map(lines, handled_entries, map) ==
    IF lines = << >> THEN map
    ELSE LET line == Head(lines)
         IN  IF line.crc \notin handled_entries
             THEN build_dti_map(Tail(lines),
                                handled_entries \cup { line.crc },
                                map \cup { [hash |-> line.crc,
                                            name |-> line.name] })
             ELSE build_dti_map(Tail(lines), handled_entries, map)

\* the lookup with bit 0 of the key ignored
PhfGet_LowBitIgnored(map, hash) ==
    LET m == { e \in map : And32(e.hash, U32(65534, 65535))
                             = And32(hash, U32(65534, 65535)) }
    IN  IF m = {} THEN << >> ELSE << CHOOSE e \in m : TRUE >>

\* DTI_MAP.get(&hash) : <<>> or <<entry>>
PhfGet(map, hash) ==
    LET m == { e \in map : e.hash = hash }
    IN  IF m = {} THEN << >> ELSE << CHOOSE e \in m : TRUE >>

\* from_hash with bit 0 of the key dropped before the lookup
DTI_from_hash_LowBitDropped(hash) ==
    PhfGet(DTI_MAP, And32(hash, U32(65534, 65535)))

\* DTI::from_hash : Option<&'static DTI>, as <<>> or <<dti>>
DTI_from_hash(hash) == PhfGet(registry, hash)

\* a lookup that takes the entry out of the map
RegistryAfterGet_Take(map, hash) == { e \in map : e.hash # hash }

\* the map after DTI_MAP.get(&hash): get borrows the static map immutably
RegistryAfterGet(map, hash) == map

\* dti::PROP_ATTR_DYNAMIC, one bit of the 8-bit attr field
PROP_ATTR_DYNAMIC == 128

\* dti::PropType::from(raw_type).  Codes of the engine's property types;
\* every code not listed is a type neither grammar handles.
PropTypeFrom(raw) ==
    CASE raw = 1   -> "class"
      [] raw = 2   -> "classref"
      [] raw = 3   -> "bool"
      [] raw = 4   -> "u8"
      [] raw = 5   -> "u16"
      [] raw = 6   -> "u32"
      [] raw = 8   -> "s8"
      [] raw = 9   -> "s16"
      [] raw = 10  -> "s32"
      [] raw = 12  -> "f32"
      [] raw = 14  -> "string"
      [] raw = 20  -> "vector3"
      [] raw = 128 -> "custom"
      [] OTHER     -> "other"

(***************************************************************************)
(* util::read_struct and util::read_null_terminated_string on the cursor.  *)
(***************************************************************************)
\* read_exact of n bytes at cursor p succeeds
CanRead(b, p, n) == p + n <= Len(b)

\* encoding_rs::SHIFT_JIS.decode on the single-byte range the model draws
\* names and strings from: a byte below 0x80 decodes to the same code point,
\* any other byte is shown as U+FFFD.
ShiftJisDecode(bytes) ==
    [ i \in 1..Len(bytes) |-> IF bytes[i] < 128 THEN bytes[i] ELSE 65533 ]

\* a usize (64 bits) of value hi * 2^60 + lo with hi < 16 and lo < 2^20:
\* the small values and the ones near the top of the range
Usize(hi, lo) == [hi |-> hi, lo |-> lo]
\* n * size does not fit 64 bits (lo * size stays below 2^60)
MulOverflows(n, size) == n.hi * size >= 16
\* n * size modulo 2^64
WrappingMul(n, size) == Usize((n.hi * size) % 16, n.lo * size)
\* a < n for a buffer length or an index a
UsizeLess(a, n) == n.hi > 0 \/ a < n.lo

\* read_struct_array::<S>(bytes, num_structs) with size == size_of::<S>(),
\* up to the iterator it returns.  The product is computed in usize: when
\* it does not fit, a build with overflow checks panics and one without
\* them goes on with the wrapped value.
read_struct_array(bytes, num_structs, size, overflow_checks) ==
    IF MulOverflows(num_structs, size) /\ overflow_checks
    THEN [tag |-> "panic", num |-> num_structs]
    ELSE IF UsizeLess(Len(bytes), WrappingMul(num_structs, size))
    THEN [tag |-> "err", num |-> num_structs]       \* "not enough bytes"
    ELSE [tag |-> "ok", num |-> num_structs]

\* item idx of that iterator: <<view>>, or <<>> when the slice
\* bytes[offs..offs + size] is out of range (a panic)
StructView(bytes, size, idx) ==
    LET offs == idx * size
    IN  IF offs + size > Len(bytes) THEN << >>
        ELSE << SubSeq(bytes, offs + 1, offs + size) >>

\* the loop of read_null_terminated_string, k bytes read so far.  It is
\* left at the first byte read (number j + 1) that is NUL or that makes
\* num_read_bytes exceed max_size, which is replaced by a NUL in v; or when
\* read_exact fails, and then v has no NUL
ReadCStrLoop(b, p, max_size, k) ==
    LET breaks == { j \in k..(Len(b) - p - 1) :
                      b[p + j + 1] = 0 \/ j + 1 > max_size }
    IN  IF breaks = { }
        THEN [ok |-> FALSE, pos |-> Len(b), str |-> << >>]
        ELSE LET j == CHOOSE j \in breaks : \A i \in breaks : j <= i
             IN  [ok |-> TRUE, pos |-> p + j + 1,
                  str |-> ShiftJisDecode(SubSeq(b, p + 1, p + j))]

\* the loop left only at a NUL byte or at the end of the stream
read_null_terminated_string_NoCap(b, p, max_size) ==
    ReadCStrLoop(b, p, Len(b), 0)

\* the cap compared with >=: num_read_bytes >= max_size
read_null_terminated_string_CapInclusive(b, p, max_size) ==
    ReadCStrLoop(b, p, max_size - 1, 0)

read_null_terminated_string(b, p, max_size) == ReadCStrLoop(b, p, max_size, 0)

\* CStr::from_bytes_until_nul(bytes): <<>> or <<bytes before the first NUL>>
RECURSIVE CStrUntilNul(_, _)
CStrUntilNul(bytes, k) ==
    IF k >= Len(bytes) THEN << >>
    ELSE IF bytes[k + 1] = 0 THEN << SubSeq(bytes, 1, k) >>
    ELSE CStrUntilNul(bytes, k + 1)

(***************************************************************************)
(* deserialize: header (mtserializer.rs 254-262).                          *)
(***************************************************************************)
HeaderSize == 24        \* size_of::<Header>()
ObjInfoSize == 16       \* size_of::<RawObjectInfo>()
PropInfoSize == 48      \* size_of::<RawPropertyInfo>()

\* read_struct::<Header>: the packed little-endian fields at the cursor
ParseHeader(b, p) ==
    [ magic         |-> LeU32(b, p),
      major_version |-> LeU16(b, p + 4),
      minor_version |-> LeU16(b, p + 6),
      max_object_id |-> LeU32(b, p + 8),
      reserved      |-> LeU32(b, p + 12),
      object_num    |-> LeU32(b, p + 16),
      database_size |-> LeU32(b, p + 20) ]

ToLeBytes32(x) == << x.lo % 256, x.lo \div 256, x.hi % 256, x.hi \div 256 >>

XFSMagicBytes == << 88, 70, 83, 0 >>                  \* "XFS\0".as_bytes()

\* the two assert_eq! of deserialize: "" when both pass
HeaderAssert(h) ==
    IF ToLeBytes32(h.magic) # XFSMagicBytes THEN "assert_magic"
    ELSE IF h.major_version # 16 THEN "assert_version"
    ELSE ""

(***************************************************************************)
(* deserialize: schema table (mtserializer.rs 264-339).                    *)
(***************************************************************************)
Mask7fff == U32(32767, 0)
Mask8000 == U32(32768, 0)
Zero32   == U32(0, 0)

\* the same with prop_size taken as the whole upper half: (b >> 16) & 0xffff
MakePropertyInfo_SizeMask16(name, bitfield) ==
    LET prop_raw_type == And32(bitfield, U32(255, 0))
        prop_attr     == And32(Shr32(bitfield, 8), U32(255, 0))
        prop_size     == And32(Shr32(bitfield, 16), U32(65535, 0))
    IN  [ name          |-> name,
          prop_raw_type |-> prop_raw_type.lo,
          prop_attr     |-> prop_attr.lo,
          prop_size     |-> prop_size.lo,
          is_dynamic    |-> HalfAnd(prop_attr.lo, PROP_ATTR_DYNAMIC) # 0,
          prop_type     |-> PropTypeFrom(prop_raw_type.lo),
          is_disabled   |-> And32(bitfield, Not32(U32(65535, 32767))) # Zero32 ]

\* the PropertyInfo of one RawPropertyInfo (lines 313-330), name given
MakePropertyInfo(name, bitfield) ==
    LET prop_raw_type == And32(bitfield, U32(255, 0))
        prop_attr     == And32(Shr32(bitfield, 8), U32(255, 0))
        prop_size     == And32(Shr32(bitfield, 16), Mask7fff)
    IN  [ name          |-> name,
          prop_raw_type |-> prop_raw_type.lo,
          prop_attr     |-> prop_attr.lo,
          prop_size     |-> prop_size.lo,
          is_dynamic    |-> HalfAnd(prop_attr.lo, PROP_ATTR_DYNAMIC) # 0,
          prop_type     |-> PropTypeFrom(prop_raw_type.lo),
          is_disabled   |-> And32(bitfield, Not32(U32(65535, 32767))) # Zero32 ]

\* the property records idx..num_props-1 of the schema header at offset p,
\* in order; the first one that panics ends the scan (lines 301-332)
RECURSIVE ParseProps(_, _, _, _, _)
ParseProps(db, p, num_props, idx, acc) ==
    IF idx >= num_props THEN [tag |-> "ok", why |-> "", props |-> acc]
    ELSE
      LET rec  == p + ObjInfoSize + idx * PropInfoSize
          name == AsUsize64(LeU64(db, rec))
          bits == LeU32(db, rec + 8)
      IN  IF name > Len(db)
          THEN [tag |-> "panic", why |-> "slice_oob_name", props |-> acc]
          ELSE
            LET cstr == CStrUntilNul(SliceFrom(db, name), 0)
            IN  IF cstr = << >>
                THEN [tag |-> "panic", why |-> "expect_prop_name",
                      props |-> acc]
                ELSE ParseProps(db, p, num_props, idx + 1,
                       Append(acc,
                              MakePropertyInfo(ShiftJisDecode(cstr[1]), bits)))

\* the pointer table read without advancing: always slot 0
ObjectPtr_FirstSlot(db, object_idx) == AsUsize64(LeU64(db, 0))

\* pointer-table slot object_idx (lines 266-271); the caller has checked
\* that the slot lies inside the blob
ObjectPtr(db, object_idx) == AsUsize64(LeU64(db, object_idx * 8))

\* the closure of lines 275-335 on one object pointer
ParseObject(db, object_ptr) ==
    IF object_ptr > Len(db) \/ Len(db) - object_ptr < ObjInfoSize
    THEN [tag |-> "panic", why |-> "slice_oob_object", at |-> << >>,
          hash |-> << >>, obj |-> << >>]
    ELSE
      LET dti_hash  == LeU32(db, object_ptr)
          bitfield  == LeU32(db, object_ptr + 8)
          dti       == DTI_from_hash(dti_hash)
          num_props == And32(bitfield, Mask7fff).lo
          is_init   == And32(bitfield, Mask8000) # Zero32
          base      == [at |-> << object_ptr >>, hash |-> << dti_hash >>,
                        obj |-> << >>]
      IN  IF dti = << >>
          THEN base @@ [tag |-> "err", why |-> "no_dti"]
          ELSE IF is_init
          THEN base @@ [tag |-> "panic", why |-> "assert_is_init"]
          ELSE IF read_struct_array(SliceFrom(db, object_ptr + ObjInfoSize),
                                    Usize(0, num_props), PropInfoSize,
                                    FALSE).tag = "err"
          THEN base @@ [tag |-> "err", why |-> "not_enough_bytes"]
          ELSE
            LET pr == ParseProps(db, object_ptr, num_props, 0, << >>)
            IN  IF pr.tag # "ok"
                THEN base @@ [tag |-> pr.tag, why |-> pr.why]
                ELSE [tag |-> "ok", why |-> "", at |-> << object_ptr >>,
                      hash |-> << dti_hash >>,
                      obj |-> << [dti |-> dti[1], props |-> pr.props] >>]

(***************************************************************************)
(* The run.                                                                *)
(***************************************************************************)
Hdr == header[1]

\* the run ends: Err(..) is returned, or a panic unwinds
Stop(o, w) ==
    /\ pc' = "done"
    /\ outcome' = o
    /\ why' = w

\* let header: Header = util::read_struct(reader)?; the two asserts
ReadHeader ==
    /\ pc = "header"
    /\ IF ~CanRead(input, pos, HeaderSize)
       THEN /\ Stop("err", "io")
            /\ UNCHANGED << pos, header >>
       ELSE LET h == ParseHeader(input, pos)
            IN  /\ pos' = pos + HeaderSize
                /\ header' = << h >>
                /\ IF HeaderAssert(h) # ""
                   THEN Stop("panic", HeaderAssert(h))
                   ELSE /\ pc' = "blob"
                        /\ UNCHANGED << outcome, why >>
    /\ UNCHANGED << callVars, keyVars, concVars >>
    /\ UNCHANGED << input, errHash, blobAllocated, database_bytes, objects,
                    overlays, stack, rootCalls, entry, lastCall, result >>

\* let mut database_bytes = vec![0u8; size]; reader.read_exact(..)?
ReadBlob ==
    /\ pc = "blob"
    /\ blobAllocated' = TRUE
    /\ LET size == AsUsize32(Hdr.database_size)
       IN  IF ~CanRead(input, pos, size)
           THEN /\ Stop("err", "io")
                /\ UNCHANGED << pos, database_bytes >>
           ELSE /\ database_bytes' = SubSeq(input, pos + 1, pos + size)
                /\ pos' = pos + size
                /\ pc' = "schema"
                /\ UNCHANGED << outcome, why >>
    /\ UNCHANGED << callVars, keyVars, concVars >>
    /\ UNCHANGED << input, errHash, header, objects, overlays, stack,
                    rootCalls, entry, lastCall, result >>

\* the else branch giving an empty Vec of objects
EmptyTable_NoObjects == [tag |-> "ok", why |-> ""]

\* the else branch of `if header.object_num != 0`:
\* todo!("handle 0 object_num?")
EmptyTable == [tag |-> "panic", why |-> "todo_object_num"]

\* header.object_num == 0: the else branch is taken
SchemaEmpty ==
    /\ pc = "schema"
    /\ Hdr.object_num = Zero32
    /\ IF EmptyTable.tag = "ok"
       THEN pc' = "class" /\ UNCHANGED << outcome, why >>
       ELSE Stop(EmptyTable.tag, EmptyTable.why)
    /\ UNCHANGED << callVars, keyVars, concVars >>
    /\ UNCHANGED << input, pos, errHash, header, blobAllocated,
                    database_bytes, objects, overlays, stack, rootCalls,
                    entry, lastCall, result >>

\* one turn of the lazy iterator chain of lines 265-336: pointer-table slot
\* Len(objects), then the ObjectInfo behind it; collect() stops at the
\* first Err
BuildObject ==
    /\ pc = "schema"
    /\ Hdr.object_num # Zero32
    /\ LET object_idx == Len(objects)
       IN  IF (object_idx + 1) * 8 > Len(database_bytes)
           THEN /\ Stop("panic", "slice_oob_ptr")
                /\ UNCHANGED << objects, overlays, errHash, registry >>
           ELSE
             LET r == ParseObject(database_bytes,
                                  ObjectPtr(database_bytes, object_idx))
             IN  /\ overlays' = overlays \cup { r.at[i] : i \in 1..Len(r.at) }
                 /\ IF r.tag = "ok"
                    THEN /\ objects' = Append(objects, r.obj[1])
                         /\ pc' = IF Len(objects) + 1 =
                                       AsUsize32(Hdr.object_num)
                                  THEN "class" ELSE "schema"
                         /\ UNCHANGED << outcome, why, errHash >>
                    ELSE /\ Stop(r.tag, r.why)
                         /\ errHash' = IF r.why = "no_dti" THEN r.hash
                                       ELSE errHash
                         /\ UNCHANGED objects
                 /\ registry' = IF r.hash = << >> THEN registry
                                 ELSE RegistryAfterGet(registry, r.hash[1])
    /\ UNCHANGED << callVars, keyVars, parked, alone >>
    /\ UNCHANGED << input, pos, header, blobAllocated, database_bytes, stack,
                    rootCalls, entry, lastCall, result >>

(***************************************************************************)
(* read_static_prop / read_dynamic_prop: one element of the array          *)
(* (mtserializer.rs 124-152 and 171-189).  The result is                   *)
(* [tag, why, pos, val]: tag "ok" with the value and the new cursor, "err" *)
(* for a failed read, "panic" for todo!/assert_eq!.                        *)
(***************************************************************************)
StaticCap  == 512       \* 0x200, cap of a static string
DynamicCap == 128       \* 0x80, cap of a custom string

Val(t, v) == [t |-> t, v |-> v]
ElemOk(p, val) == [tag |-> "ok", why |-> "", pos |-> p, val |-> << val >>]
ElemFail(tag, w, p) == [tag |-> tag, why |-> w, pos |-> p, val |-> << >>]

\* a short read leaves the buffer zeroed and is not reported
Scalar_ZeroFill(b, p, w, val) ==
    ElemOk(IF CanRead(b, p, w) THEN p + w ELSE Len(b), val)

\* the bytes are looked at without moving the cursor
Scalar_NoAdvance(b, p, w, val) ==
    IF CanRead(b, p, w) THEN ElemOk(p, val) ELSE ElemFail("err", "io", p)

\* util::read_struct::<T> of a w-byte scalar followed by `make`
Scalar(b, p, w, val) ==
    IF CanRead(b, p, w) THEN ElemOk(p + w, val) ELSE ElemFail("err", "io", p)

\* the four f32 reads of a vector3 and the assert on the padding
ReadVector3(b, p) ==
    IF ~CanRead(b, p, 4) THEN ElemFail("err", "io", p)
    ELSE IF ~CanRead(b, p + 4, 4) THEN ElemFail("err", "io", p + 4)
    ELSE IF ~CanRead(b, p + 8, 4) THEN ElemFail("err", "io", p + 8)
    ELSE IF ~CanRead(b, p + 12, 4) THEN ElemFail("err", "io", p + 12)
    ELSE IF ~F32IsZero(LeU32(b, p + 12))
         THEN ElemFail("panic", "assert_padding", p + 16)
    ELSE ElemOk(p + 16, Val("Vector3", << LeU32(b, p), LeU32(b, p + 4),
                                          LeU32(b, p + 8) >>))

ReadString(b, p, cap, t) ==
    LET r == read_null_terminated_string(b, p, cap)
    IN  IF r.ok THEN ElemOk(r.pos, Val(t, r.str))
        ELSE ElemFail("err", "cstr", r.pos)

\* the strings of a custom element over the inclusive range 0..=num_customs
RECURSIVE ReadCustoms_Inclusive(_, _, _, _)
ReadCustoms_Inclusive(b, p, left, acc) ==
    LET r == read_null_terminated_string(b, p, DynamicCap)
    IN  IF ~r.ok THEN ElemFail("err", "cstr", r.pos)
        ELSE IF left = 0 THEN ElemOk(r.pos, Val("Custom", Append(acc, r.str)))
        ELSE ReadCustoms_Inclusive(b, r.pos, left - 1, Append(acc, r.str))

\* the (0..num_customs) strings of a custom element
RECURSIVE ReadCustoms(_, _, _, _)
ReadCustoms(b, p, left, acc) ==
    IF left = 0 THEN ElemOk(p, Val("Custom", acc))
    ELSE LET r == read_null_terminated_string(b, p, DynamicCap)
         IN  IF ~r.ok THEN ElemFail("err", "cstr", r.pos)
             ELSE ReadCustoms(b, r.pos, left - 1, Append(acc, r.str))

\* the arms of read_static_prop's match other than class | classref
ReadStaticElem(prop_type, b, p) ==
    CASE prop_type = "u16" ->
           Scalar(b, p, 2, Val("U16", IF CanRead(b, p, 2) THEN LeU16(b, p) ELSE 0))
      [] prop_type = "vector3" -> ReadVector3(b, p)
      [] prop_type = "bool" ->
           Scalar(b, p, 1, Val("Bool", IF CanRead(b, p, 1) THEN LeU8(b, p) # 0 ELSE FALSE))
      [] prop_type = "u8" ->
           Scalar(b, p, 1, Val("U8", IF CanRead(b, p, 1) THEN LeU8(b, p) ELSE 0))
      [] prop_type = "f32" ->
           Scalar(b, p, 4, Val("F32", IF CanRead(b, p, 4) THEN LeU32(b, p) ELSE Zero32))
      [] prop_type = "s32" ->
           Scalar(b, p, 4, Val("S32", IF CanRead(b, p, 4) THEN AsI32(LeU32(b, p)) ELSE 0))
      [] prop_type = "u32" ->
           Scalar(b, p, 4, Val("U32", IF CanRead(b, p, 4) THEN LeU32(b, p) ELSE Zero32))
      [] prop_type = "s16" ->
           Scalar(b, p, 2, Val("S16", IF CanRead(b, p, 2) THEN AsI16(LeU16(b, p)) ELSE 0))
      [] prop_type = "s8" ->
           Scalar(b, p, 1, Val("S8", IF CanRead(b, p, 1) THEN AsI8(LeU8(b, p)) ELSE 0))
      [] prop_type = "string" -> ReadString(b, p, StaticCap, "String")
      [] OTHER -> ElemFail("panic", "todo_prop_type", p)

\* the arms of read_dynamic_prop's match other than classref
ReadDynamicElem(prop_type, b, p) ==
    CASE prop_type = "custom" ->
           IF ~CanRead(b, p, 1) THEN ElemFail("err", "io", p)
           ELSE ReadCustoms(b, p + 1, LeU8(b, p), << >>)
      [] prop_type = "bool" ->
           Scalar(b, p, 1, Val("Bool", IF CanRead(b, p, 1) THEN LeU8(b, p) # 0 ELSE FALSE))
      [] prop_type = "s16" ->
           Scalar(b, p, 2, Val("S16", IF CanRead(b, p, 2) THEN AsI16(LeU16(b, p)) ELSE 0))
      [] prop_type = "s32" ->
           Scalar(b, p, 4, Val("S32", IF CanRead(b, p, 4) THEN AsI32(LeU32(b, p)) ELSE 0))
      [] prop_type = "u32" ->
           Scalar(b, p, 4, Val("U32", IF CanRead(b, p, 4) THEN LeU32(b, p) ELSE Zero32))
      [] OTHER -> ElemFail("panic", "todo_prop_type", p)

\* the element is decoded by a nested read_class call: the class arms of
\* the grammar g
IsClassArm(g, prop_type) ==
    IF g = "dynamic" THEN prop_type = "classref"
    ELSE prop_type \in {"class", "classref"}

\* every property is read by the static grammar
Grammar_AlwaysStatic(prop) == "static"

\* if prop.is_dynamic { read_dynamic_prop(..) } else { read_static_prop(..) }
Grammar(prop) == IF prop.is_dynamic THEN "dynamic" ELSE "static"

(***************************************************************************)
(* read_class (mtserializer.rs 195-251) as a call stack.  A "class" frame  *)
(* is a read_class call that is decoding its properties; a "prop" frame is *)
(* the read_*_prop call of its property number pi.                         *)
(***************************************************************************)
MaskFffe == U32(65534, 0)

\* the sentinel compared as a whole word: class_info == 0xfffe
IsNullClass_WholeWord(class_info) == class_info = MaskFffe

\* (class_info & 0xfffe) == 0xfffe
IsNullClass(class_info) == And32(class_info, MaskFffe) = MaskFffe

\* the index without its mask: (class_info >> 1) as usize
SchemaIndex_NoMask(class_info) == AsUsize32(Shr32(class_info, 1))

\* the unused value is not read at all
ReadUnused_Skipped(b, p) == p

\* ((class_info >> 1) & 0x7fff) as usize
SchemaIndex(class_info) == AsUsize32(And32(Shr32(class_info, 1), Mask7fff))

\* the unused value read as a u32
ReadUnused_U32(b, p) == IF CanRead(b, p, 4) THEN p + 4 ELSE -1

\* let _unused_value = util::read_struct::<u64, _>(reader)? at cursor p:
\* the cursor after it, or -1 when the read fails
ReadUnused(b, p) == IF CanRead(b, p, 8) THEN p + 8 ELSE -1

\* a frame: k, the discriminant d read at `start`, the schema record obj,
\* the property number pi, acc (the props of a class, the values of a
\* property); a "prop" frame also has its grammar g, the cursor `from` at
\* which it was called and its array length n; a "class" frame keeps in
\* `spans` the grammar and the stream bytes [from, to) of each property done
ClassFrame(d, start, obj) ==
    [k |-> "class", d |-> d, start |-> start, obj |-> obj, pi |-> 1,
     n |-> 0, acc |-> << >>, g |-> "", from |-> start, spans |-> << >>]
PropFrame(f, g, from, n) ==
    [k |-> "prop", d |-> f.d, start |-> f.start, obj |-> f.obj, pi |-> f.pi,
     n |-> n, acc |-> << >>, g |-> g, from |-> from, spans |-> << >>]

Top == stack[Len(stack)]
Pop(st) == SubSeq(st, 1, Len(st) - 1)
SchemaProps(f) == objects[f.obj].props
CurProp(f) == SchemaProps(f)[f.pi]

\* a read_class call returns r (<<>> for None, <<class>> for Some) to the
\* frame below, or to deserialize when there is none
Return(st, d, start, end, r, spans) ==
    /\ lastCall' = << [d |-> d, start |-> start, end |-> end, res |-> r,
                       spans |-> spans, root |-> st = << >>] >>
    /\ pos' = end
    /\ IF st = << >>
       THEN /\ stack' = st
            /\ IF r = << >>
               THEN /\ Stop("panic", "expect_root")   \* class.expect(..)
                    /\ UNCHANGED result
               ELSE /\ Stop("ok", "")
                    /\ result' = r
       ELSE /\ stack' = [st EXCEPT ![Len(st)].acc =
                              Append(@, Val("Class", r))]
            /\ UNCHANGED << pc, outcome, why, result >>

\* what the entry of read_class did with discriminant d read at `start`:
\* fate "none" (returned None), "frame" (went on to the properties),
\* "index_oob" (objects[..] panicked) or "io" (the unused bytes were short)
Entered(d, start, fate, next) ==
    entry' = << [d |-> d, start |-> start, fate |-> fate, next |-> next] >>

\* the entry of read_class, up to the read of the 8 unused bytes
CallReadClass ==
    /\ pc = "class"
    /\ \/ stack = << >> /\ rootCalls = 0
       \/ /\ stack # << >>
          /\ Top.k = "prop"
          /\ Len(Top.acc) < Top.n
          /\ IsClassArm(Top.g, CurProp(Top).prop_type)
    /\ rootCalls' = IF stack = << >> THEN rootCalls + 1 ELSE rootCalls
    /\ IF ~CanRead(input, pos, 4)
       THEN /\ Stop("err", "io")
            /\ UNCHANGED << pos, stack, entry, lastCall, result >>
       ELSE
         LET class_info == LeU32(input, pos)
             after      == ReadUnused(input, pos + 4)
         IN  IF IsNullClass(class_info)
             THEN /\ Entered(class_info, pos, "none", pos + 4)
                  /\ Return(stack, class_info, pos, pos + 4, << >>, << >>)
             ELSE IF SchemaIndex(class_info) >= Len(objects)
             THEN /\ Entered(class_info, pos, "index_oob", pos + 4)
                  /\ Stop("panic", "index_oob")
                  /\ pos' = pos + 4
                  /\ UNCHANGED << stack, lastCall, result >>
             ELSE IF after < 0
             THEN /\ Entered(class_info, pos, "io", pos + 4)
                  /\ Stop("err", "io")
                  /\ pos' = pos + 4
                  /\ UNCHANGED << stack, lastCall, result >>
             ELSE /\ Entered(class_info, pos, "frame", after)
                  /\ stack' = Append(stack,
                         ClassFrame(class_info, pos,
                                    SchemaIndex(class_info) + 1))
                  /\ pos' = after
                  /\ UNCHANGED << pc, outcome, why, lastCall, result >>
    /\ UNCHANGED << callVars, keyVars, concVars >>
    /\ UNCHANGED << input, errHash, header, blobAllocated, database_bytes,
                    objects, overlays >>

\* the next property of the class on top: the is_disabled check, the choice
\* of the grammar and the array length read by read_*_prop
PropStart ==
    /\ pc = "class"
    /\ stack # << >>
    /\ Top.k = "class"
    /\ Top.pi <= Len(SchemaProps(Top))
    /\ IF CurProp(Top).is_disabled
       THEN /\ Stop("panic", "todo_disabled")
            /\ UNCHANGED << pos, stack >>
       ELSE IF ~CanRead(input, pos, 4)
       THEN /\ Stop("err", "io")
            /\ UNCHANGED << pos, stack >>
       ELSE /\ stack' = Append(stack,
                               PropFrame(Top, Grammar(CurProp(Top)), pos,
                                         AsUsize32(LeU32(input, pos))))
            /\ pos' = pos + 4
            /\ UNCHANGED << pc, outcome, why >>
    /\ UNCHANGED << callVars, keyVars, concVars >>
    /\ UNCHANGED << input, errHash, header, blobAllocated, database_bytes,
                    objects, overlays, rootCalls, entry, lastCall, result >>

\* one element that is not a nested class
ReadElem ==
    /\ pc = "class"
    /\ stack # << >>
    /\ Top.k = "prop"
    /\ Len(Top.acc) < Top.n
    /\ ~IsClassArm(Top.g, CurProp(Top).prop_type)
    /\ LET prop == CurProp(Top)
           r == IF Top.g = "dynamic"
                THEN ReadDynamicElem(prop.prop_type, input, pos)
                ELSE ReadStaticElem(prop.prop_type, input, pos)
       IN  /\ pos' = r.pos
           /\ IF r.tag = "ok"
              THEN /\ stack' = [stack EXCEPT ![Len(stack)].acc =
                                     Append(@, r.val[1])]
                   /\ UNCHANGED << pc, outcome, why >>
              ELSE /\ Stop(r.tag, r.why)
                   /\ UNCHANGED stack
    /\ UNCHANGED << callVars, keyVars, concVars >>
    /\ UNCHANGED << input, errHash, header, blobAllocated, database_bytes,
                    objects, overlays, rootCalls, entry, lastCall, result >>

\* read_*_prop returns Property(values); read_class pairs it with the name
PropDone ==
    /\ pc = "class"
    /\ stack # << >>
    /\ Top.k = "prop"
    /\ Len(Top.acc) = Top.n
    /\ LET st == Pop(stack)
       IN  stack' = [st EXCEPT ![Len(st)].acc =
                          Append(@, << CurProp(Top).name, Top.acc >>),
                        ![Len(st)].spans =
                          Append(@, [g |-> Top.g, from |-> Top.from,
                                     to |-> pos, n |-> Top.n]),
                        ![Len(st)].pi = @ + 1]
    /\ UNCHANGED << callVars, keyVars, concVars >>
    /\ UNCHANGED << input, pos, pc, outcome, why, errHash, header,
                    blobAllocated, database_bytes, objects, overlays,
                    rootCalls, entry, lastCall, result >>

\* Ok(Some(Class { class_type, props }))
ClassDone ==
    /\ pc = "class"
    /\ stack # << >>
    /\ Top.k = "class"
    /\ Top.pi > Len(SchemaProps(Top))
    /\ Return(Pop(stack), Top.d, Top.start, pos,
              << [class_type |-> objects[Top.obj].dti, props |-> Top.acc] >>,
              Top.spans)
    /\ UNCHANGED << callVars, keyVars, concVars >>
    /\ UNCHANGED << input, errHash, header, blobAllocated, database_bytes,
                    objects, overlays, rootCalls, entry >>

(***************************************************************************)
(* The documents the model decodes.  A document is laid out here from a    *)
(* description of its schema and of its instance stream; the decoder above *)
(* sees only the resulting bytes.                                          *)
(***************************************************************************)
Le16(n)  == << n % 256, n \div 256 >>
Le32(n)  == Le16(n % 65536) \o Le16(n \div 65536)       \* 0 <= n < 2^31
Le32H(x) == Le16(x.lo) \o Le16(x.hi)
\* a pointer or name offset; -1 stands for one beyond any buffer
Le64(n)  == IF n < 0 THEN << 0, 0, 0, 0, 1, 0, 0, 0 >>
            ELSE Le32(n) \o << 0, 0, 0, 0 >>
Zeros(n) == [ i \in 1..n |-> 0 ]

RECURSIVE Flat(_)
Flat(ss) == IF ss = << >> THEN << >> ELSE Head(ss) \o Flat(Tail(ss))

XFSMagic == 5457496                                   \* 0x00534658
UnknownHash == U32(62707, 23898)                      \* not in DTI_MAP

\* a property of a schema: raw type, dynamic or not, and what is wrong with it
PSpec(ty, dyn, defect) == [ty |-> ty, dyn |-> dyn, defect |-> defect]
\* a schema record: its properties and what is wrong with its header
OSpec(props, defect) == [props |-> props, defect |-> defect]

RecLen(o) == ObjInfoSize + PropInfoSize * Len(o.props)

\* bytes taken by the first k records in physical order
RECURSIVE PhysLen(_, _, _)
PhysLen(objs, order, k) ==
    IF k = 0 THEN 0
    ELSE PhysLen(objs, order, k - 1) + RecLen(objs[order[k]])

RECURSIVE PropsBefore(_, _)
PropsBefore(objs, i) ==
    IF i <= 1 THEN 0 ELSE PropsBefore(objs, i - 1) + Len(objs[i - 1].props)

PhysPos(order, i) == CHOOSE k \in 1..Len(order) : order[k] = i
RecOff(objs, order, i) ==
    8 * Len(objs) + PhysLen(objs, order, PhysPos(order, i) - 1)
NamesOff(objs, order) == 8 * Len(objs) + PhysLen(objs, order, Len(objs))
\* every name is two letters and a NUL; the blob ends with one byte 'z'
NameLen == 2 + 1
BlobLen(objs, order) ==
    NamesOff(objs, order) + NameLen * PropsBefore(objs, Len(objs) + 1) + 1

PropName(i, k) == << 96 + i, 48 + k >>

NameOffset(objs, order, i, k) ==
    LET d == objs[i].props[k].defect
    IN  CASE d = "name_end"   -> BlobLen(objs, order)
          [] d = "name_past"  -> BlobLen(objs, order) + 1
          [] d = "name_huge"  -> -1
          [] d = "name_nonul" -> BlobLen(objs, order) - 1
          [] OTHER -> NamesOff(objs, order)
                        + NameLen * (PropsBefore(objs, i) + k - 1)

PropRecord(objs, order, i, k) ==
    LET ps == objs[i].props[k]
    IN  Le64(NameOffset(objs, order, i, k))
        \o << ps.ty, IF ps.dyn THEN PROP_ATTR_DYNAMIC ELSE 0, 4,
              IF ps.defect = "disabled" THEN 128 ELSE 0 >>
        \o Zeros(36)

ObjRecord(objs, order, i) ==
    LET o == objs[i]
    IN  Le32H(IF o.defect = "badhash" THEN UnknownHash ELSE BitsetProp32Hash)
        \o Zeros(4)
        \o Le32(CASE o.defect = "init"    -> Len(o.props) + 32768
                  [] o.defect = "toomany" -> 32767
                  [] OTHER                -> Len(o.props))
        \o Zeros(4)
        \o Flat([ k \in 1..Len(o.props) |-> PropRecord(objs, order, i, k) ])

\* the pointer of table slot i; ptr = <<slot, mode>> redirects one slot
PtrValue(objs, order, ptr, i) ==
    IF ptr[1] # i THEN RecOff(objs, order, i)
    ELSE CASE ptr[2] = "alias0"    -> 0
           [] ptr[2] = "aliasLast" -> 8 * Len(objs) - 1
           [] ptr[2] = "tail"      -> BlobLen(objs, order) - 8
           [] ptr[2] = "end"       -> BlobLen(objs, order)
           [] ptr[2] = "past"      -> BlobLen(objs, order) + 1
           [] ptr[2] = "huge"      -> -1
           [] OTHER                -> RecOff(objs, order, i)

Blob(objs, order, ptr) ==
    Flat([ i \in 1..Len(objs) |-> Le64(PtrValue(objs, order, ptr, i)) ])
    \o Flat([ k \in 1..Len(objs) |-> ObjRecord(objs, order, order[k]) ])
    \o Flat([ i \in 1..Len(objs) |->
                Flat([ k \in 1..Len(objs[i].props) |->
                         PropName(i, k) \o << 0 >> ]) ])
    \o << 122 >>

HeaderBytes(magic, major, object_num, database_size) ==
    Le32(magic) \o Le16(major) \o Le16(0) \o Le32(0) \o Le32(0)
    \o Le32(object_num) \o Le32(database_size)

\* null discriminants and the eight bytes after a discriminant
NullDisc == 65534                                     \* 0x0000fffe
Unused   == << 1, 2, 3, 4, 5, 6, 7, 8 >>

\* a node of schema record i (1-based) without properties
LeafNode(i) == Le32(2 * (i - 1)) \o Unused

\* one array element of raw type ty in variant ev
Elem(ty, dyn, ev) ==
    CASE ty \in {1, 2} ->
           (CASE ev = 0 -> Le32(NullDisc)
              [] ev = 1 -> LeafNode(2)
              [] OTHER  -> Le32(NullDisc + 65536))
      [] ty \in {3, 4, 8} -> << IF ev = 0 THEN 0 ELSE IF ev = 1 THEN 1 ELSE 255 >>
      [] ty \in {5, 9} -> IF ev = 0 THEN << 0, 0 >>
                          ELSE IF ev = 1 THEN << 1, 2 >> ELSE << 255, 255 >>
      [] ty \in {6, 10, 12} ->
           IF ev = 0 THEN << 0, 0, 0, 0 >>
           ELSE IF ev = 1 THEN << 1, 2, 3, 4 >> ELSE << 255, 255, 255, 255 >>
      [] ty = 14 -> IF ev = 0 THEN << 0 >>
                    ELSE IF ev = 1 THEN << 104, 105, 0 >> ELSE << 104, 105 >>
      [] ty = 20 -> << 0, 0, 128, 63, 0, 0, 0, 64, 0, 0, 64, 64 >>
                    \o (IF ev = 0 THEN << 0, 0, 0, 0 >>
                        ELSE IF ev = 1 THEN << 0, 0, 0, 128 >>
                        ELSE << 0, 0, 128, 63 >>)
      [] ty = 128 -> IF ev = 0 THEN << 0 >>
                     ELSE IF ev = 1 THEN << 2, 104, 0, 0 >>
                     ELSE << 1, 104, 105 >>
      [] OTHER -> << 7 >>

\* a property occurrence: the array length and n elements
PropBytes(ps, n, ev) ==
    Le32(n) \o Flat([ j \in 1..n |-> Elem(ps.ty, ps.dyn, ev) ])

\* the instance stream of a root shaped like schema record r, with
\* discriminant disc
Instance(objs, r, disc, n, ev) ==
    Le32(disc) \o Unused
    \o Flat([ k \in 1..Len(objs[r].props) |->
                PropBytes(objs[r].props[k], n, ev) ])

Document(magic, major, object_num, blob, inst) ==
    HeaderBytes(magic, major, object_num, Len(blob)) \o blob \o inst

Cut(doc, t) == SubSeq(doc, 1, IF t > Len(doc) THEN 0 ELSE Len(doc) - t)

Identity(n) == [ i \in 1..n |-> i ]
Reversed(n) == [ i \in 1..n |-> n + 1 - i ]
NoPtr == << 0, "none" >>

\* section 8.7 of the specification: the minimal document
MinimalBlob == Le64(8) \o Le32H(BitsetProp32Hash) \o Zeros(12)
MinimalDoc(reserved) ==
    HeaderBytes(XFSMagic, 16, 1, 24) \o MinimalBlob \o Le32(0) \o reserved

\* headers of every kind in front of the minimal body, and the minimal
\* document cut at every length
HeaderFamily ==
    { Cut(HeaderBytes(magic, major, object_num, 24) \o MinimalBlob
            \o Le32(0) \o Unused, t) :
        magic \in { XFSMagic, XFSMagic + 1, XFSMagic + 16777216 },
        major \in { 15, 16 },
        object_num \in 0..MaxObjectNum,
        t \in 0..MaxTrunc }
    \cup { SubSeq(MinimalDoc(r), 1, k) :
             r \in { Zeros(8), Unused }, k \in 0..Len(MinimalDoc(Unused)) }

\* schema records, sound or with one defect
ObjVariants ==
    { OSpec(<< >>, "none") }
    \cup { OSpec(<< PSpec(4, FALSE, "none") >>, d) :
             d \in { "none", "badhash", "init", "toomany" } }
    \cup { OSpec(<< PSpec(4, FALSE, d) >>, "none") :
             d \in { "name_end", "name_past", "name_huge", "name_nonul",
                     "disabled" } }
    \cup { OSpec(<< PSpec(4, FALSE, "none"), PSpec(4, FALSE, "disabled") >>,
                 "none") }

\* every table of 1..MaxObjectNum such records, in both physical orders,
\* decoded from a root of each record
SchemaFamily ==
    UNION { { Document(XFSMagic, 16, n, Blob(objs, order, NoPtr),
                       Instance(objs, r, 2 * (r - 1), 1, 1)) :
                objs \in [ 1..n -> ObjVariants ],
                order \in { Identity(n), Reversed(n) },
                r \in 1..n } :
            n \in 1..MaxObjectNum }

\* one pointer-table slot redirected, and blobs shorter than their table
PtrFamily ==
    UNION { { Document(XFSMagic, 16, n,
                       Blob([ i \in 1..n |-> od ], Identity(n),
                            << slot, mode >>),
                       Instance([ i \in 1..n |-> od ], 1, 0, 1, 1)) :
                od \in { OSpec(<< PSpec(4, FALSE, "none") >>, "none"),
                         OSpec(<< PSpec(4, FALSE, "none") >>, "badhash") },
                slot \in 1..n,
                mode \in { "alias0", "aliasLast", "tail", "end", "past",
                           "huge" } } :
            n \in 1..MaxObjectNum }
    \cup { HeaderBytes(XFSMagic, 16, n, size) \o Zeros(size) \o LeafNode(1) :
             n \in 1..MaxObjectNum, size \in { 0, 4, 8 } }

\* raw type codes: the thirteen the grammars name, and one they do not
RawTypes == { 1, 2, 3, 4, 5, 6, 7, 8, 9, 10, 12, 14, 20, 128 }

\* record 1 has one property of each type and grammar, the other records
\* have none
TypeObjs(ty, dyn, n) ==
    [ i \in 1..n |-> IF i = 1 THEN OSpec(<< PSpec(ty, dyn, "none") >>, "none")
                     ELSE OSpec(<< >>, "none") ]
TypeFamily ==
    { Cut(Document(XFSMagic, 16, MaxObjectNum,
                   Blob(TypeObjs(ty, dyn, MaxObjectNum),
                        Identity(MaxObjectNum), NoPtr),
                   Instance(TypeObjs(ty, dyn, MaxObjectNum), 1, 0, n, ev)),
          t) :
        ty \in RawTypes, dyn \in BOOLEAN, n \in 0..MaxArrayLen,
        ev \in 0..2, t \in 0..MaxTrunc }

\* root discriminants: indexes in and out of range, bit 0 and the upper
\* half set, the null sentinels
RootDiscs ==
    { 0, 1, 2, 3, 2 * MaxObjectNum, 65532, 65536, 65538,
      NullDisc, NullDisc + 1, NullDisc + 65536, NullDisc + 65537 }
DiscFamily ==
    { Document(XFSMagic, 16, MaxObjectNum,
               Blob(TypeObjs(ty, FALSE, MaxObjectNum),
                    Identity(MaxObjectNum), NoPtr),
               Instance(TypeObjs(ty, FALSE, MaxObjectNum), 1, disc, n, ev)) :
        ty \in { 1, 4 }, disc \in RootDiscs, n \in 0..1, ev \in 0..2 }

\* record 1 has 2..MaxProps properties of both grammars, in every order
OrderProps ==
    { PSpec(3, FALSE, "none"), PSpec(128, TRUE, "none"),
      PSpec(14, FALSE, "none"), PSpec(2, TRUE, "none") }
PropsObjs(props, n) ==
    [ i \in 1..n |-> IF i = 1 THEN OSpec(props, "none")
                     ELSE OSpec(<< >>, "none") ]
OrderFamily ==
    UNION { { Document(XFSMagic, 16, MaxObjectNum,
                       Blob(PropsObjs(props, MaxObjectNum),
                            Identity(MaxObjectNum), NoPtr),
                       Instance(PropsObjs(props, MaxObjectNum), 1, 0, n, ev)) :
                props \in [ 1..m -> OrderProps ],
                n \in 0..MaxArrayLen, ev \in 0..1 } :
            m \in 2..MaxProps }

\* arrays of the fixed-width static types whose elements differ from one
\* another and from byte to byte, with the top bit of every byte clear
\* (ev = 0) or set (ev = 1)
FixedTypes == { 3, 4, 5, 6, 8, 9, 10, 12, 20 }
ArrayByte(j, i, ev) == IF ev = 0 THEN j + i - 2 ELSE 256 - j - i
ArrayElem(ty, j, ev) ==
    CASE ty \in {3, 4, 8} -> << ArrayByte(j, 1, ev) >>
      [] ty \in {5, 9} -> [ i \in 1..2 |-> ArrayByte(j, i, ev) ]
      [] ty = 20 -> [ i \in 1..12 |-> ArrayByte(j, i, ev) ] \o Zeros(4)
      [] OTHER -> [ i \in 1..4 |-> ArrayByte(j, i, ev) ]
ArrayFamily ==
    { Cut(Document(XFSMagic, 16, MaxObjectNum,
                   Blob(TypeObjs(ty, FALSE, MaxObjectNum),
                        Identity(MaxObjectNum), NoPtr),
                   Le32(0) \o Unused \o Le32(n)
                     \o Flat([ j \in 1..n |-> ArrayElem(ty, j, ev) ])),
          t) :
        ty \in FixedTypes, n \in 0..MaxArrayLen, ev \in 0..1,
        t \in 0..MaxTrunc }

\* one custom element of two strings, the first a run of letters one byte
\* shorter than the cap of a custom string, as long as it and one byte
\* longer
CapFamily ==
    { Document(XFSMagic, 16, MaxObjectNum,
               Blob(TypeObjs(128, TRUE, MaxObjectNum),
                    Identity(MaxObjectNum), NoPtr),
               Le32(0) \o Unused \o Le32(1) \o << 2 >>
                 \o [ i \in 1..len |-> 97 ] \o << 0, 98, 0 >>) :
        len \in { 127, 128, 129 } }

Docs == HeaderFamily \cup SchemaFamily \cup PtrFamily \cup TypeFamily
        \cup DiscFamily \cup OrderFamily \cup ArrayFamily \cup CapFamily

\* bitflags! KeyState: u32 (input_state.rs 6-14)
KeyW == 1
KeyA == 2
KeyS == 4
KeyD == 8
KeyFlags == { KeyW, KeyA, KeyS, KeyD }

\* InputState::new()
InputState_new ==
    /\ frame_mouse_delta = << 0, 0 >>
    /\ current_key_state = 0                            \* KeyState::empty()
    /\ lastKeyOp = [ k \in KeyFlags |-> "none" ]

\* no pure function has been called
NoCall == call = << >> /\ ret = << >>

\* the registry as generated at build time; one deserialize call at most
NoConc == registry = DTI_MAP /\ parked = << >> /\ alone = << >>

Init ==
    /\ NoCall
    /\ InputState_new
    /\ NoConc
    /\ input \in Docs
    /\ pos = 0
    /\ pc = "header"
    /\ outcome = "running"
    /\ why = ""
    /\ errHash = << >>
    /\ header = << >>
    /\ blobAllocated = FALSE
    /\ database_bytes = << >>
    /\ objects = << >>
    /\ overlays = { }
    /\ stack = << >>
    /\ rootCalls = 0
    /\ entry = << >>
    /\ lastCall = << >>
    /\ result = << >>

Next ==
    \/ ReadHeader
    \/ ReadBlob
    \/ SchemaEmpty
    \/ BuildObject
    \/ CallReadClass
    \/ PropStart
    \/ ReadElem
    \/ PropDone
    \/ ClassDone

Spec == Init /\ [][Next]_vars

(***************************************************************************)
(* Vocabulary of the properties.                                           *)
(*                                                                         *)
(* The blob is read here byte by byte, without the operators of the        *)
(* decoder, so that the properties state what the decoder must produce.    *)
(***************************************************************************)
\* the error kind of the specification that an Err(..) of the code stands
\* for; the code has no Err for the other kinds
ErrKind ==
    IF outcome # "err" THEN "none"
    ELSE CASE why = "io"     -> "TruncatedInput"
           [] why = "no_dti" -> "UnknownType"
           [] OTHER          -> "unnamed"

ObjNum == AsUsize32(Hdr.object_num)
DbSize == AsUsize32(Hdr.database_size)

\* the header passed both checks and the whole blob was read
BlobRead ==
    /\ header # << >>
    /\ blobAllocated
    /\ Len(database_bytes) = DbSize
    /\ pos >= HeaderSize + DbSize

DbByte(off) == database_bytes[off + 1]
DbWord(off) == DbByte(off) + 256 * DbByte(off + 1)

\* pointer-table slot i (0-based) lies in the blob; its value
SlotIn(i) == 8 * i + 8 <= Len(database_bytes)
SlotPtr(i) ==
    IF \E j \in 3..7 : DbByte(8 * i + j) # 0 THEN HugeIndex
    ELSE DbWord(8 * i) + 65536 * DbByte(8 * i + 2)
\* the 16-byte schema header behind slot i lies in the blob
RecIn(i) == SlotIn(i) /\ SlotPtr(i) + ObjInfoSize <= Len(database_bytes)

HashAt(p)     == U32(DbWord(p), DbWord(p + 2))
NumPropsAt(p) == DbWord(p + 8) % 32768
IsInitAt(p)   == DbWord(p + 8) >= 32768
Registered(h) == \E e \in DTI_MAP : e.hash = h
PropsFit(p)   ==
    Len(database_bytes) - p - ObjInfoSize >= NumPropsAt(p) * PropInfoSize

\* property record k (0-based) of the schema header at p
PropRecAt(p, k) == p + ObjInfoSize + PropInfoSize * k
NameOffAt(rec) ==
    IF \E j \in 3..7 : DbByte(rec + j) # 0 THEN HugeIndex
    ELSE DbWord(rec) + 65536 * DbByte(rec + 2)
HasNulFrom(off) ==
    \E j \in (off + 1)..Len(database_bytes) : database_bytes[j] = 0
\* the bytes from off up to the first NUL (names of the model are ASCII)
NameAt(off) ==
    LET n == CHOOSE n \in 0..Len(database_bytes) :
                 /\ DbByte(off + n) = 0
                 /\ \A j \in 0..(n - 1) : DbByte(off + j) # 0
    IN  SubSeq(database_bytes, off + 1, off + n)

\* schema index of a discriminant: bits 1..15
DiscIndex(d) == (d.lo \div 2) % 32768

(***************************************************************************)
(* C1.  An input with a full header whose magic is not "XFS\0" or whose    *)
(* major_version is not 16 ends with the BadMagicOrVersion error returned  *)
(* to the caller, before the blob is allocated and before any byte past    *)
(* the header is read.  (The code asserts instead: it panics.)             *)
(***************************************************************************)
C1_BadMagicOrVersion ==
    ( /\ pc = "done"
      /\ Len(input) >= HeaderSize
      /\ \/ SubSeq(input, 1, 4) # << 88, 70, 83, 0 >>
         \/ input[5] + 256 * input[6] # 16 )
    => /\ outcome = "err"
       /\ ErrKind = "BadMagicOrVersion"
       /\ ~blobAllocated
       /\ pos <= HeaderSize

(***************************************************************************)
(* C2.  When the pointer-table slot the schema phase stopped at, or any    *)
(* slot before it, holds a pointer below object_num*8 (with 16 bytes of    *)
(* blob behind it, so that only the aliasing is at fault), the run ends    *)
(* with the CorruptPointerTable error and no schema header was overlaid on *)
(* pointer-table bytes.  (The code never compares a pointer with the       *)
(* table's size.)                                                          *)
(***************************************************************************)
C2_PointerTableBound ==
    ( /\ BlobRead
      /\ pc = "done"
      /\ \E i \in 0..Len(objects) :
            i < ObjNum /\ RecIn(i) /\ SlotPtr(i) < 8 * ObjNum )
    => /\ outcome = "err"
       /\ ErrKind = "CorruptPointerTable"
       /\ \A p \in overlays : p >= 8 * ObjNum

(***************************************************************************)
(* C3.  When the schema phase stops at a record whose pointer-table slot,  *)
(* whose 16-byte header or one of whose property names lies outside the    *)
(* blob (or has no NUL before the blob's end), the run ends with an error  *)
(* value, CorruptPointerTable for a pointer, and not with a panic.         *)
(***************************************************************************)
NameOutside(p) ==
    \E k \in 0..(NumPropsAt(p) - 1) :
        \/ NameOffAt(PropRecAt(p, k)) >= Len(database_bytes)
        \/ ~HasNulFrom(NameOffAt(PropRecAt(p, k)))

C3_BlobBounds ==
    LET i == Len(objects)
    IN  ( /\ BlobRead
          /\ pc = "done"
          /\ i < ObjNum
          /\ \/ ~SlotIn(i)
             \/ SlotIn(i) /\ ~RecIn(i)
             \/ /\ RecIn(i)
                /\ Registered(HashAt(SlotPtr(i)))
                /\ ~IsInitAt(SlotPtr(i))
                /\ PropsFit(SlotPtr(i))
                /\ NameOutside(SlotPtr(i)) )
        => /\ outcome = "err"
           /\ (SlotIn(i) /\ ~RecIn(i)) => ErrKind = "CorruptPointerTable"

(***************************************************************************)
(* C4.  read_class on a discriminant whose low 16 bits are 0xFFFE returns  *)
(* None and leaves the cursor 4 bytes after the discriminant: the call     *)
(* never goes on to the unused bytes or to a property.                     *)
(***************************************************************************)
C4_NullSentinel ==
    /\ (entry # << >> /\ entry[1].d.lo = 65534)
          => /\ entry[1].fate = "none"
             /\ entry[1].next = entry[1].start + 4
    /\ (lastCall # << >> /\ lastCall[1].d.lo = 65534)
          => /\ lastCall[1].res = << >>
             /\ lastCall[1].end = lastCall[1].start + 4
    /\ \A k \in 1..Len(stack) : stack[k].d.lo # 65534

\* a nested read_class has just returned None for 0x0000fffe
C4_Witness ==
    /\ entry # << >>
    /\ entry[1].d = U32(65534, 0)
    /\ entry[1].fate = "none"
    /\ pos = entry[1].start + 4
    /\ stack # << >>
    /\ outcome = "running"

(***************************************************************************)
(* C5.  A discriminant that is not the null sentinel and whose schema      *)
(* index is not below the number of schema records ends the run with the   *)
(* InvalidDiscriminant error, never with a panic and never with a node.    *)
(* (The code indexes the Vec, which panics.)                               *)
(***************************************************************************)
C5_InvalidDiscriminant ==
    ( /\ entry # << >>
      /\ DiscIndex(entry[1].d) # 32767
      /\ DiscIndex(entry[1].d) >= Len(objects) )
    => /\ outcome = "err"
       /\ ErrKind = "InvalidDiscriminant"
       /\ entry[1].fate # "frame"

(***************************************************************************)
(* C6.  The minimal document (one pointer 8, one schema header with a      *)
(* registered hash and bitfield 0, discriminant 0 and 8 reserved bytes)    *)
(* decodes to the node of the registered type with no property, and the    *)
(* reader has consumed exactly 60 bytes.                                   *)
(***************************************************************************)
MinimalDocs == { MinimalDoc(Zeros(8)), MinimalDoc(Unused) }

C6_MinimalDocument ==
    input \in MinimalDocs
    => /\ outcome \in { "running", "ok" }
       /\ pc = "done"
            => /\ result = << [ class_type |-> [hash |-> BitsetProp32Hash,
                                               name |-> "bitset_prop<32>"],
                                props |-> << >> ] >>
               /\ pos = 60

C6_Witness ==
    /\ input \in MinimalDocs
    /\ pc = "done"
    /\ outcome = "ok"

(***************************************************************************)
(* C7.  deserialize calls read_class once at top level, and a root that    *)
(* decodes as absent ends the run with the RequiredNodeAbsent error        *)
(* returned to the caller.  (The code calls expect on the Option, which    *)
(* panics.)                                                                *)
(***************************************************************************)
C7_RootRequired ==
    /\ rootCalls <= 1
    /\ (lastCall # << >> /\ lastCall[1].root /\ lastCall[1].res = << >>)
          => /\ outcome = "err"
             /\ ErrKind = "RequiredNodeAbsent"
             /\ result = << >>

(***************************************************************************)
(* C8.  After a successful schema phase the schema table has object_num    *)
(* records, record i is the one described by the bytes at the offset held  *)
(* in pointer-table slot i (type hash, number, types, attributes and names *)
(* of the properties, in order), and a discriminant with schema index i    *)
(* selects record i.                                                       *)
(***************************************************************************)
RecordMatches(o, p) ==
    /\ o.dti.hash = HashAt(p)
    /\ Len(o.props) = NumPropsAt(p)
    /\ \A k \in 1..Len(o.props) :
          LET rec == PropRecAt(p, k - 1)
          IN  /\ o.props[k].prop_raw_type = DbByte(rec + 8)
              /\ o.props[k].prop_attr = DbByte(rec + 9)
              /\ o.props[k].name = NameAt(NameOffAt(rec))

Names(o) == [ k \in 1..Len(o.props) |-> o.props[k].name ]

C8_SchemaOrder ==
    (pc = "class" \/ rootCalls > 0)
    => /\ Len(objects) = ObjNum
       /\ \A i \in 0..(ObjNum - 1) :
             RecIn(i) /\ RecordMatches(objects[i + 1], SlotPtr(i))
       /\ \A k \in 1..Len(stack) : stack[k].obj = DiscIndex(stack[k].d) + 1
       /\ (lastCall # << >> /\ lastCall[1].res # << >>)
             => [ k \in 1..Len(lastCall[1].res[1].props) |->
                    lastCall[1].res[1].props[k][1] ]
                = Names(objects[DiscIndex(lastCall[1].d) + 1])

\* two different records whose pointers are in the reverse of table order,
\* and a node of the second one decoded
C8_Witness ==
    /\ outcome = "ok"
    /\ Len(objects) >= 2
    /\ SlotPtr(0) > SlotPtr(1)
    /\ objects[1] # objects[2]
    /\ DiscIndex(lastCall[1].d) = 1

(***************************************************************************)
(* C9.  A schema record whose type_hash is absent from the registry makes  *)
(* the whole decode fail: no node is returned and no byte of the instance  *)
(* stream is read; and when the schema phase stops at that record the      *)
(* outcome is the UnknownType error naming its hash.                       *)
(***************************************************************************)
UnknownAt(i) == RecIn(i) /\ ~Registered(HashAt(SlotPtr(i)))

C9_UnknownTypeFirstFailure ==
    ( /\ BlobRead
      /\ \E i \in 0..(ObjNum - 1) : UnknownAt(i) )
    => /\ pc # "class"
       /\ outcome # "ok"
       /\ result = << >>
       /\ rootCalls = 0
       /\ entry = << >>
       /\ pos = HeaderSize + DbSize
       /\ ( /\ pc = "done"
            /\ Len(objects) < ObjNum
            /\ UnknownAt(Len(objects)) )
          => /\ outcome = "err"
             /\ ErrKind = "UnknownType"
             /\ errHash = << HashAt(SlotPtr(Len(objects))) >>

\* the second record is the unknown one; the first was built
C9_Witness ==
    /\ pc = "done"
    /\ BlobRead
    /\ Len(objects) = 1
    /\ UnknownAt(1)
    /\ outcome = "err"
    /\ errHash = << UnknownHash >>

\* C9 as first stated: whichever record has the absent hash, the outcome is
\* the UnknownType error.  Runs that panic are left aside, so that what
\* refutes it is an error value the code returns for an earlier record.
C9_AnyRecordUnknownType ==
    ( /\ BlobRead
      /\ pc = "done"
      /\ outcome # "panic"
      /\ \E i \in 0..(ObjNum - 1) : UnknownAt(i) )
    => /\ outcome = "err"
       /\ ErrKind = "UnknownType"
       /\ result = << >>
       /\ pos = HeaderSize + DbSize

(***************************************************************************)
(* C10.  When the schema phase stops at a record of a registered type      *)
(* whose is_init bit (bit 15 of the bitfield) is set, the run ends with    *)
(* the UnsupportedSchemaShape error returned to the caller.  (The code     *)
(* asserts !is_init: it panics.)                                           *)
(***************************************************************************)
C10_PreInitialized ==
    LET i == Len(objects)
    IN  ( /\ BlobRead
          /\ pc = "done"
          /\ i < ObjNum
          /\ RecIn(i)
          /\ Registered(HashAt(SlotPtr(i)))
          /\ IsInitAt(SlotPtr(i)) )
        => /\ outcome = "err"
           /\ ErrKind = "UnsupportedSchemaShape"

(***************************************************************************)
(* Vocabulary of the properties about read_class.                          *)
(***************************************************************************)
\* the property record behind property pi (1-based) of schema record obj
\* (1-based), read from the blob
PropRecOf(obj, pi) == PropRecAt(SlotPtr(obj - 1), pi - 1)
RawTypeAt(rec)  == DbByte(rec + 8)
DynamicAt(rec)  == DbByte(rec + 9) >= 128
DisabledAt(rec) == DbByte(rec + 11) >= 128

\* the run stopped in a read_class call that was about to start property
\* Top.pi
StoppedAtProperty ==
    /\ pc = "done"
    /\ stack # << >>
    /\ Top.k = "class"
    /\ Top.pi <= Len(SchemaProps(Top))

(***************************************************************************)
(* C11.  When read_class reaches a property whose is_disabled flag (bit 31 *)
(* of its bitfield) is set, the run ends with the "unsupported: disabled   *)
(* property" error returned to the caller: the properties before it are    *)
(* decoded, no byte of the disabled one is read and no node is returned.   *)
(* (The code runs todo!("disabled prop"): it panics.)                      *)
(***************************************************************************)
C11_DisabledProperty ==
    ( /\ StoppedAtProperty
      /\ DisabledAt(PropRecOf(Top.obj, Top.pi)) )
    => /\ outcome = "err"
       /\ ErrKind = "UnsupportedSchemaShape"
       /\ Len(Top.acc) = Top.pi - 1
       /\ pos = IF Top.pi = 1 THEN Top.start + 12
                ELSE Top.spans[Top.pi - 1].to
       /\ result = << >>

(***************************************************************************)
(* Calls of the functions that keep no state.  A call is drawn with its    *)
(* arguments; the function is applied to it and what it returns is kept in *)
(* `ret`.  No deserialize runs meanwhile.                                  *)
(***************************************************************************)
DocIdle ==
    /\ input = << >>
    /\ pos = 0
    /\ pc = "idle"
    /\ outcome = "running"
    /\ why = ""
    /\ errHash = << >>
    /\ header = << >>
    /\ blobAllocated = FALSE
    /\ database_bytes = << >>
    /\ objects = << >>
    /\ overlays = { }
    /\ stack = << >>
    /\ rootCalls = 0
    /\ entry = << >>
    /\ lastCall = << >>
    /\ result = << >>

Calling(fn) == call # << >> /\ call[1].fn = fn
Arg == call[1].arg

\* the bytes a u32 bitfield is made of: both ends of every field
FieldBytes == { 0, 1, 127, 128, 255 }
BitfieldCalls ==
    { [fn |-> "bitfield",
       arg |-> U32(b0 + 256 * b1, b2 + 256 * b3)] :
        b0 \in FieldBytes, b1 \in FieldBytes, b2 \in FieldBytes,
        b3 \in FieldBytes }

\* the bitfield of a property record is unpacked (mtserializer.rs 313-320)
UnpackBitfield ==
    /\ Calling("bitfield")
    /\ ret = << >>
    /\ ret' = << MakePropertyInfo(<< >>, Arg) >>
    /\ UNCHANGED << call, docVars, keyVars, concVars >>

\* test_dti_hashes: the hash of one registry entry is computed from its name
HashCalls == { [fn |-> "dti_hash", arg |-> e] : e \in DTI_MAP }

\* crc32(name.as_bytes(), u32::MAX): the loop over the bytes, the register
\* starting at the seed
ComputeHash ==
    /\ Calling("dti_hash")
    /\ IF ret = << >>
       THEN ret' = << [i |-> 0, crc |-> U32(65535, 65535), hash |-> << >>] >>
       ELSE /\ ret[1].i < Len(NameBytes(Arg.name))
            /\ ret' = << [i |-> ret[1].i + 1,
                          crc |-> CrcByte(ret[1].crc,
                                          NameBytes(Arg.name)[ret[1].i + 1]),
                          hash |-> << >>] >>
    /\ UNCHANGED << call, docVars, keyVars, concVars >>

\* let hash_computed = crc32(..) & 0x7fffffff
MaskComputedHash ==
    /\ Calling("dti_hash")
    /\ ret # << >>
    /\ ret[1].i = Len(NameBytes(Arg.name))
    /\ ret[1].hash = << >>
    /\ ret' = << [ret[1] EXCEPT !.hash = << MaskHash(ret[1].crc) >>] >>
    /\ UNCHANGED << call, docVars, keyVars, concVars >>

\* lines of dti.txt: the registered type, a second line with the same crc
\* and a line with another one; the hashes looked up
MaxLines == 2
DtiLines ==
    { [name |-> "bitset_prop<32>", crc |-> BitsetProp32Hash],
      [name |-> "bitset_prop<32>#2", crc |-> BitsetProp32Hash],
      [name |-> "other", crc |-> U32(1, 0)] }
LookupHashes ==
    { BitsetProp32Hash, U32(62707, 23898), U32(62706, 23898 + 32768),
      U32(1, 0), U32(0, 0) }
FromHashCalls ==
    UNION { { [fn |-> "from_hash", arg |-> [lines |-> l, hash |-> h]] :
                l \in [ 1..n -> DtiLines ], h \in LookupHashes } :
            n \in 0..MaxLines }

\* from_hash on the map generated from the lines; called twice
LookUp ==
    /\ Calling("from_hash")
    /\ Len(ret) < 2
    /\ ret' = Append(ret, PhfGet(build_dti_map(Arg.lines, { }, { }),
                                 Arg.hash))
    /\ UNCHANGED << call, docVars, keyVars, concVars >>

\* read_struct_array on spans of up to MaxBytes bytes (byte i holds i), for
\* record sizes 0..3 and counts that are small or near the top of usize,
\* in a build with and in one without overflow checks
MaxBytes == 4
Counting(len) == [ i \in 1..len |-> i ]
StructArrayCalls ==
    { [fn |-> "read_struct_array",
       arg |-> [bytes |-> Counting(len), num |-> Usize(hi, lo),
                size |-> size, overflow_checks |-> oc]] :
        len \in 0..MaxBytes, hi \in { 0, 4, 8 }, lo \in 0..(MaxBytes + 1),
        size \in 1..3, oc \in BOOLEAN }
    \cup { [fn |-> "read_struct_array",
            arg |-> [bytes |-> Counting(len), num |-> Usize(0, lo),
                     size |-> 0, overflow_checks |-> oc]] :
             len \in 0..MaxBytes, lo \in 0..(MaxBytes + 1), oc \in BOOLEAN }

\* the call itself: ret[1] is Err, a panic or the iterator
CallReadStructArray ==
    /\ Calling("read_struct_array")
    /\ ret = << >>
    /\ ret' = << read_struct_array(Arg.bytes, Arg.num, Arg.size,
                                   Arg.overflow_checks) >>
    /\ UNCHANGED << call, docVars, keyVars, concVars >>

\* items of the iterator returned so far, and whether the last one panicked
Yielded == Len(ret) - 1
IterPanicked == Len(ret) > 1 /\ ret[Len(ret)].item = << >>

\* the caller takes the next item of the iterator
NextStruct ==
    /\ Calling("read_struct_array")
    /\ ret # << >>
    /\ ret[1].tag = "ok"
    /\ ~IterPanicked
    /\ UsizeLess(Yielded, Arg.num)
    /\ ret' = Append(ret, [item |-> StructView(Arg.bytes, Arg.size, Yielded)])
    /\ UNCHANGED << call, docVars, keyVars, concVars >>

\* read_null_terminated_string on a reader whose cursor is at `pos` of a
\* stream of up to MaxStream bytes (a NUL, a letter, a byte above 0x7f),
\* with max_size in 0..MaxCap
MaxStream == 4
MaxCap == 3
StreamBytes == { 0, 65, 200 }
StringCalls ==
    UNION { { [fn |-> "read_null_terminated_string",
               arg |-> [bytes |-> s, pos |-> p, max_size |-> m]] :
                s \in [ 1..len -> StreamBytes ], p \in { 0, 1 } \cap 0..len,
                m \in 0..MaxCap } :
            len \in 0..MaxStream }

\* the call itself: ret[1] is what it returned and where it left the cursor
CallReadString ==
    /\ Calling("read_null_terminated_string")
    /\ ret = << >>
    /\ ret' = << read_null_terminated_string(Arg.bytes, Arg.pos,
                                             Arg.max_size) >>
    /\ UNCHANGED << call, docVars, keyVars, concVars >>

Calls == BitfieldCalls \cup HashCalls \cup FromHashCalls \cup StructArrayCalls
         \cup StringCalls

CallInit ==
    /\ call \in { << c >> : c \in Calls }
    /\ ret = << >>
    /\ DocIdle
    /\ InputState_new
    /\ NoConc

CallNext ==
    \/ UnpackBitfield
    \/ ComputeHash
    \/ MaskComputedHash
    \/ LookUp
    \/ CallReadStructArray
    \/ NextStruct
    \/ CallReadString

CallSpec == CallInit /\ [][CallNext]_vars

(***************************************************************************)
(* C12.  Unpacking a u32 bitfield v into raw_type = v & 0xff,              *)
(* attr = (v >> 8) & 0xff, declared_size = (v >> 16) & 0x7fff and          *)
(* disabled = bit 31, and packing the four fields again as                 *)
(* raw_type | attr << 8 | declared_size << 16 | disabled << 31, gives v:   *)
(* each field is within its width and together they hold all 32 bits.      *)
(***************************************************************************)
C12_BitfieldRoundTrip ==
    (Calling("bitfield") /\ ret # << >>)
    => LET p == ret[1]
       IN  /\ p.prop_raw_type \in 0..255
           /\ p.prop_attr \in 0..255
           /\ p.prop_size \in 0..32767
           /\ U32(p.prop_raw_type + 256 * p.prop_attr,
                  p.prop_size + 32768 * (IF p.is_disabled THEN 1 ELSE 0))
              = Arg

\* 0xffff01ff is unpacked: every bit of the size field and bit 31 are set
C12_Witness ==
    /\ Calling("bitfield")
    /\ Arg = U32(511, 65535)
    /\ ret # << >>
    /\ ret[1].is_disabled
    /\ ret[1].prop_size = 32767

(***************************************************************************)
(* C14.  For every entry (hash, name) of the type registry, the crc32 of   *)
(* the name's bytes with seed 0xffffffff, masked with 0x7fffffff, is the   *)
(* entry's hash.                                                           *)
(***************************************************************************)
C14_DtiHashLaw ==
    (Calling("dti_hash") /\ ret # << >> /\ ret[1].hash # << >>)
    => ret[1].hash[1] = Arg.hash

\* the hash of "bitset_prop<32>" has been computed: bit 31 of the crc is
\* set, so the mask matters
C14_Witness ==
    /\ Calling("dti_hash")
    /\ Arg.name = "bitset_prop<32>"
    /\ ret # << >>
    /\ ret[1].hash = << BitsetProp32Hash >>
    /\ ret[1].crc.hi >= 32768

(***************************************************************************)
(* C15.  from_hash(h) returns the registry entry keyed by exactly h, the   *)
(* one the first line of that crc made, or None when no line has that crc; *)
(* it never returns an entry kept under another hash, and a second lookup  *)
(* of h gives what the first one gave.                                     *)
(***************************************************************************)
LinesOf(h) == { i \in 1..Len(Arg.lines) : Arg.lines[i].crc = h }
FirstLineOf(h) == CHOOSE i \in LinesOf(h) : \A j \in LinesOf(h) : i <= j

C15_FromHashTotal ==
    (Calling("from_hash") /\ ret # << >>)
    => \A k \in 1..Len(ret) :
          ret[k] = IF LinesOf(Arg.hash) = { } THEN << >>
                   ELSE << [hash |-> Arg.hash,
                            name |-> Arg.lines[FirstLineOf(Arg.hash)].name] >>

\* two lines share the crc looked up; both lookups found the first one
C15_Witness ==
    /\ Calling("from_hash")
    /\ Len(Arg.lines) = 2
    /\ Arg.lines[1].crc = Arg.hash
    /\ Arg.lines[2].crc = Arg.hash
    /\ Arg.lines[1].name # Arg.lines[2].name
    /\ Len(ret) = 2
    /\ ret[2] = << [hash |-> Arg.hash, name |-> Arg.lines[1].name] >>

(***************************************************************************)
(* C16.  read_struct_array(bytes, count) returns an error, before any      *)
(* record is yielded, whenever len(bytes) < count * size_of(Record);       *)
(* otherwise it yields count views, the i-th being the bytes               *)
(* [i*size, (i+1)*size) of the span, and nothing past count*size is read.  *)
(* (The code multiplies in usize: a product that does not fit panics or    *)
(* wraps, and the wrapped product passes the length check.)                *)
(***************************************************************************)
\* len(bytes) < count * size in mathematics
SpanTooShort ==
    \/ Arg.size > 0 /\ Arg.num.hi > 0
    \/ Arg.num.lo * Arg.size > Len(Arg.bytes)

C16_ReadStructArray ==
    (Calling("read_struct_array") /\ ret # << >>)
    => IF SpanTooShort
       THEN ret[1].tag = "err" /\ Yielded = 0
       ELSE /\ ret[1].tag = "ok"
            /\ Yielded <= Arg.num.lo
            /\ \A i \in 0..(Yielded - 1) :
                  ret[i + 2].item =
                     << SubSeq(Arg.bytes, i * Arg.size + 1,
                               (i + 1) * Arg.size) >>
            /\ (~ENABLED NextStruct) => Yielded = Arg.num.lo

(***************************************************************************)
(* C13.  In the static grammar, a vector3 element whose fourth f32 (the    *)
(* padding) is not zero makes the decode fail with an error returned to    *)
(* the caller, and no Vector3 value is accepted for such an element.       *)
(* (The code checks the padding with assert_eq!: it panics.)               *)
(***************************************************************************)
\* the frame reads a static vector3 property, by the bytes of its record
StaticVector3(f) ==
    /\ f.k = "prop"
    /\ RawTypeAt(PropRecOf(f.obj, f.pi)) = 20
    /\ ~DynamicAt(PropRecOf(f.obj, f.pi))
\* element j (1-based) of the frame's array starts here: 16 bytes each
Vector3At(f, j) == f.from + 4 + 16 * (j - 1)
\* the padding of the element at e is +0.0 or -0.0
PaddingZero(e) ==
    SubSeq(input, e + 13, e + 16) \in { << 0, 0, 0, 0 >>, << 0, 0, 0, 128 >> }

C13_Vector3Padding ==
    \A k \in 1..Len(stack) :
        StaticVector3(stack[k])
        => /\ \A j \in 1..Len(stack[k].acc) :
                 PaddingZero(Vector3At(stack[k], j))
           /\ ( /\ pc = "done"
                /\ k = Len(stack)
                /\ Len(stack[k].acc) < stack[k].n
                /\ Vector3At(stack[k], Len(stack[k].acc) + 2) <= Len(input)
                /\ ~PaddingZero(Vector3At(stack[k], Len(stack[k].acc) + 1)) )
              => outcome = "err"

(***************************************************************************)
(* InputState (input_state.rs): the keys held and the mouse movement of    *)
(* the frame.  A KeyState is a set of flags kept in the bits of a u32.     *)
(***************************************************************************)
MaxDelta == 1         \* each coordinate of the mouse delta stays in -MaxDelta..MaxDelta

\* every KeyState built from the four flags, the empty one included
KeyStates == 0..(KeyW + KeyA + KeyS + KeyD)

\* self | other
KeyUnion(a, b) == a + b - HalfAnd(a, b)

\* the flags of b toggled in a: self ^ other
KeyDifference_Toggle(a, b) == HalfXor(a, b)

\* self - other of bitflags: self & !other
KeyDifference(a, b) == a - HalfAnd(a, b)

\* has_key: self.current_key_state.contains(key)
has_key(key) == HalfAnd(current_key_state, key) = key

\* the last call naming each flag, after a call `op` with argument key
Named(op, key) ==
    [ k \in KeyFlags |-> IF HalfAnd(key, k) # 0 THEN op ELSE lastKeyOp[k] ]

set_key(key) ==
    /\ current_key_state' = KeyUnion(current_key_state, key)
    /\ lastKeyOp' = Named("set", key)
    /\ UNCHANGED << frame_mouse_delta, docVars, callVars,
                    concVars >>

unset_key(key) ==
    /\ current_key_state' = KeyDifference(current_key_state, key)
    /\ lastKeyOp' = Named("unset", key)
    /\ UNCHANGED << frame_mouse_delta, docVars, callVars,
                    concVars >>

next_frame ==
    /\ frame_mouse_delta' = << 0, 0 >>
    /\ UNCHANGED << current_key_state, lastKeyOp, docVars, callVars,
                    concVars >>

add_mouse_movement(event_delta) ==
    /\ frame_mouse_delta[1] + event_delta[1] \in -MaxDelta..MaxDelta
    /\ frame_mouse_delta[2] + event_delta[2] \in -MaxDelta..MaxDelta
    /\ frame_mouse_delta' = << frame_mouse_delta[1] + event_delta[1],
                               frame_mouse_delta[2] + event_delta[2] >>
    /\ UNCHANGED << current_key_state, lastKeyOp, docVars, callVars,
                    concVars >>

KeyInit ==
    /\ InputState_new
    /\ DocIdle
    /\ NoCall
    /\ NoConc

KeyNext ==
    \/ \E key \in KeyStates : set_key(key)
    \/ \E key \in KeyStates : unset_key(key)
    \/ next_frame
    \/ \E dx \in -1..1, dy \in -1..1 : add_mouse_movement(<< dx, dy >>)

KeySpec == KeyInit /\ [][KeyNext]_vars

(***************************************************************************)
(* C17.  After any sequence of set_key and unset_key calls, has_key(k) is  *)
(* true exactly when the last call naming k was set_key: a call leaves the *)
(* flags it does not name as they were, and a new InputState has no key.   *)
(***************************************************************************)
C17_KeyTracking ==
    \A k \in KeyFlags : has_key(k) <=> lastKeyOp[k] = "set"

\* W and A were set and A was unset again, with another flag never named:
\* the sequence of test_key
C17_Witness ==
    /\ lastKeyOp[KeyW] = "set"
    /\ lastKeyOp[KeyA] = "unset"
    /\ lastKeyOp[KeyD] = "none"
    /\ has_key(KeyW)
    /\ ~has_key(KeyA)
    /\ ~has_key(KeyD)

(***************************************************************************)
(* C18.  A property whose type is outside the set its grammar supports     *)
(* makes the decode fail, whatever its array length, zero included: no     *)
(* value and no (name, values) entry is ever accepted for it, no class     *)
(* holding it is returned, and read_class never goes on to the property    *)
(* after it.  (The code fails inside the loop over the elements, which an  *)
(* array of length 0 never enters.)                                        *)
(***************************************************************************)
StaticTypes ==
    { "class", "classref", "u16", "vector3", "bool", "u8", "f32", "s32",
      "u32", "s16", "s8", "string" }
DynamicTypes == { "custom", "bool", "classref", "s16", "s32", "u32" }

Unsupported(prop) ==
    IF prop.is_dynamic THEN prop.prop_type \notin DynamicTypes
    ELSE prop.prop_type \notin StaticTypes

C18_UnsupportedTypeFails ==
    /\ \A k \in 1..Len(stack) :
          /\ stack[k].k = "class"
                => \A j \in 1..Len(stack[k].acc) :
                      ~Unsupported(SchemaProps(stack[k])[j])
          /\ (stack[k].k = "prop" /\ Unsupported(CurProp(stack[k])))
                => /\ stack[k].acc = << >>
                   /\ k = Len(stack)
    /\ (lastCall # << >> /\ lastCall[1].res # << >>)
          => \A j \in 1..Len(lastCall[1].res[1].props) :
                ~Unsupported(objects[DiscIndex(lastCall[1].d) + 1].props[j])

(***************************************************************************)
(* C19.  In the dynamic grammar, a classref element whose read_class       *)
(* returns None ends the run with the RequiredNodeAbsent error:            *)
(* read_dynamic_prop never yields PropertyValue::Class(None).  (The code   *)
(* stores whatever read_class returned.)                                   *)
(***************************************************************************)
DynamicClassref(f) ==
    /\ f.k = "prop"
    /\ CurProp(f).is_dynamic
    /\ CurProp(f).prop_type = "classref"

C19_ClassrefRequired ==
    /\ \A k \in 1..Len(stack) :
          DynamicClassref(stack[k])
          => \A j \in 1..Len(stack[k].acc) :
                stack[k].acc[j] # Val("Class", << >>)
    /\ ( /\ stack # << >>
         /\ DynamicClassref(Top)
         /\ entry # << >>
         /\ entry[1].fate = "none"
         /\ pos = entry[1].start + 4 )
       => /\ pc = "done"
          /\ outcome = "err"
          /\ ErrKind = "RequiredNodeAbsent"

(***************************************************************************)
(* C20.  A class being decoded, and every class returned, holds one        *)
(* (name, values) entry per property of its schema record done so far, in  *)
(* the order of the record (all of them once it is returned); the stream   *)
(* bytes of the properties follow one another, property i ending where     *)
(* property i+1 starts; and each property is read by the dynamic grammar   *)
(* exactly when the dynamic bit of its record is set, by the static        *)
(* grammar otherwise.                                                      *)
(***************************************************************************)
\* props and spans are the first Len(props) properties of schema record obj
\* (1-based), read from the stream from byte `first` up to byte `last`
InSchemaOrder(obj, props, spans, first, last) ==
    /\ Len(props) <= NumPropsAt(SlotPtr(obj - 1))
    /\ Len(spans) = Len(props)
    /\ \A j \in 1..Len(props) :
          /\ props[j][1] = NameAt(NameOffAt(PropRecOf(obj, j)))
          /\ Len(props[j][2]) = spans[j].n
          /\ spans[j].g = IF DynamicAt(PropRecOf(obj, j)) THEN "dynamic"
                          ELSE "static"
          /\ spans[j].from = IF j = 1 THEN first ELSE spans[j - 1].to
          /\ spans[j].from + 4 <= spans[j].to
    /\ last = IF props = << >> THEN first ELSE spans[Len(props)].to

C20_PropertyOrder ==
    /\ \A k \in 1..Len(stack) :
          LET f == stack[k]
          IN  /\ f.k = "class"
                    => /\ Len(f.acc) = f.pi - 1
                       /\ InSchemaOrder(f.obj, f.acc, f.spans, f.start + 12,
                             IF k = Len(stack) THEN pos ELSE stack[k + 1].from)
              /\ f.k = "prop"
                    => /\ f.g = IF DynamicAt(PropRecOf(f.obj, f.pi))
                                THEN "dynamic" ELSE "static"
                       /\ stack[k - 1].k = "class"
                       /\ stack[k - 1].pi = f.pi
                       /\ Len(f.acc) <= f.n
    /\ (lastCall # << >> /\ lastCall[1].res # << >>)
          => LET r == lastCall[1]
                 obj == DiscIndex(r.d) + 1
             IN  /\ Len(r.res[1].props) = NumPropsAt(SlotPtr(obj - 1))
                 /\ InSchemaOrder(obj, r.res[1].props, r.spans,
                                  r.start + 12, r.end)

\* a node of three properties is returned whose second one is dynamic and
\* whose third one is static, each an array of two values
C20_Witness ==
    /\ outcome = "ok"
    /\ Len(result[1].props) = 3
    /\ lastCall[1].root
    /\ lastCall[1].spans[2].g = "dynamic"
    /\ lastCall[1].spans[3].g = "static"
    /\ lastCall[1].spans[2].n = 2
    /\ lastCall[1].spans[3].to = Len(input)

(***************************************************************************)
(* C21.  read_static_prop reads one little-endian u32 N and then exactly N *)
(* values: a property it returned holds N values in stream order; for a    *)
(* fixed-width type the property takes 4 + N*w stream bytes, w being 1 for *)
(* u8/s8/bool, 2 for u16/s16, 4 for u32/s32/f32 and 16 for vector3, and    *)
(* value i is the little-endian value of the w bytes at 4 + (i-1)*w; a     *)
(* bool is true exactly when its byte is not zero.                         *)
(***************************************************************************)
FixedWidth(prop_type) ==
    CASE prop_type \in { "u8", "s8", "bool" } -> 1
      [] prop_type \in { "u16", "s16" } -> 2
      [] prop_type \in { "u32", "s32", "f32" } -> 4
      [] prop_type = "vector3" -> 16
      [] OTHER -> 0

\* the stream byte at offset e (0-based), as unsigned and as signed
StreamByte(e) == input[e + 1]
StreamSByte(e) == IF input[e + 1] > 127 THEN input[e + 1] - 256
                  ELSE input[e + 1]
\* the four stream bytes at e as a little-endian word
StreamWord(e) == [lo |-> StreamByte(e) + 256 * StreamByte(e + 1),
                  hi |-> StreamByte(e + 2) + 256 * StreamByte(e + 3)]

\* the value the w bytes at e stand for
FixedValue(prop_type, e) ==
    CASE prop_type = "bool" -> Val("Bool", StreamByte(e) # 0)
      [] prop_type = "u8"   -> Val("U8", StreamByte(e))
      [] prop_type = "s8"   -> Val("S8", StreamSByte(e))
      [] prop_type = "u16"  ->
           Val("U16", StreamByte(e) + 256 * StreamByte(e + 1))
      [] prop_type = "s16"  ->
           Val("S16", StreamByte(e) + 256 * StreamSByte(e + 1))
      [] prop_type = "u32"  -> Val("U32", StreamWord(e))
      [] prop_type = "f32"  -> Val("F32", StreamWord(e))
      [] prop_type = "s32"  ->
           Val("S32", StreamByte(e) + 256 * StreamByte(e + 1)
                        + 65536 * StreamByte(e + 2)
                        + 16777216 * StreamSByte(e + 3))
      [] prop_type = "vector3" ->
           Val("Vector3", << StreamWord(e), StreamWord(e + 4),
                             StreamWord(e + 8) >>)

\* the properties read so far by the static grammar for schema record obj
StaticArrays(obj, props, spans) ==
    \A j \in 1..Len(spans) :
        spans[j].g = "static"
        => LET pt == objects[obj].props[j].prop_type
               w  == FixedWidth(pt)
               n  == spans[j].n
               at == spans[j].from
           IN  /\ StreamWord(at) = U32(n % 65536, n \div 65536)
               /\ Len(props[j][2]) = n
               /\ w > 0
                  => /\ spans[j].to = at + 4 + n * w
                     /\ \A i \in 1..n :
                           props[j][2][i] =
                              FixedValue(pt, at + 4 + (i - 1) * w)

C21_StaticArray ==
    /\ \A k \in 1..Len(stack) :
          stack[k].k = "class"
          => StaticArrays(stack[k].obj, stack[k].acc, stack[k].spans)
    /\ (lastCall # << >> /\ lastCall[1].res # << >>)
          => StaticArrays(DiscIndex(lastCall[1].d) + 1,
                          lastCall[1].res[1].props, lastCall[1].spans)

\* a root is returned whose only property is a static s16 array of two
\* different negative values
C21_Witness ==
    /\ outcome = "ok"
    /\ lastCall[1].root
    /\ DiscIndex(lastCall[1].d) = 0
    /\ Len(objects[1].props) = 1
    /\ objects[1].props[1].prop_type = "s16"
    /\ lastCall[1].spans[1].g = "static"
    /\ lastCall[1].spans[1].n = 2
    /\ result[1].props[1][2][1].v < 0
    /\ result[1].props[1][2][2].v < result[1].props[1][2][1].v

(***************************************************************************)
(* C22.  In the dynamic grammar a custom element is one u8 count M and     *)
(* then M null-terminated strings, each capped at 128 bytes: a custom      *)
(* property that was returned holds, per element, a Custom value of        *)
(* exactly M strings in stream order, the elements and their strings lying *)
(* one after another in the stream from the array length to the end of the *)
(* property (an element with M = 0 is the empty list and takes 1 byte).    *)
(***************************************************************************)
\* where the strings strs, laid one after another from stream offset at,
\* end: each is its bytes, none of them NUL, then its NUL or, at the cap,
\* one byte more; -1 when the stream does not hold them there
RECURSIVE StringsEnd(_, _)
StringsEnd(strs, at) ==
    IF strs = << >> THEN at
    ELSE LET len == Len(Head(strs))
         IN  IF /\ len <= DynamicCap
                /\ at + len + 1 <= Len(input)
                /\ \A i \in 1..len : input[at + i] # 0
                /\ Head(strs) = ShiftJisDecode(SubSeq(input, at + 1, at + len))
                /\ len = DynamicCap \/ input[at + len + 1] = 0
             THEN StringsEnd(Tail(strs), at + len + 1)
             ELSE -1

\* the same for custom elements: the count byte, then the strings
RECURSIVE CustomsEnd(_, _)
CustomsEnd(vals, at) ==
    IF at < 0 \/ vals = << >> THEN at
    ELSE IF /\ Head(vals).t = "Custom"
            /\ at + 1 <= Len(input)
            /\ Len(Head(vals).v) = input[at + 1]
         THEN CustomsEnd(Tail(vals), StringsEnd(Head(vals).v, at + 1))
         ELSE -1

DynamicCustoms(obj, props, spans) ==
    \A j \in 1..Len(spans) :
        (spans[j].g = "dynamic" /\ objects[obj].props[j].prop_type = "custom")
        => /\ Len(props[j][2]) = spans[j].n
           /\ CustomsEnd(props[j][2], spans[j].from + 4) = spans[j].to

C22_CustomElement ==
    /\ \A k \in 1..Len(stack) :
          stack[k].k = "class"
          => DynamicCustoms(stack[k].obj, stack[k].acc, stack[k].spans)
    /\ (lastCall # << >> /\ lastCall[1].res # << >>)
          => DynamicCustoms(DiscIndex(lastCall[1].d) + 1,
                            lastCall[1].res[1].props, lastCall[1].spans)

\* a root is returned whose custom element holds two strings: the first was
\* cut at the cap, the byte after it is not a NUL
C22_Witness ==
    /\ outcome = "ok"
    /\ lastCall[1].root
    /\ DiscIndex(lastCall[1].d) = 0
    /\ Len(objects[1].props) = 1
    /\ lastCall[1].spans[1].g = "dynamic"
    /\ objects[1].props[1].prop_type = "custom"
    /\ lastCall[1].spans[1].n = 1
    /\ Len(result[1].props[1][2][1].v) = 2
    /\ Len(result[1].props[1][2][1].v[1]) = DynamicCap
    /\ input[lastCall[1].spans[1].from + 4 + 1 + DynamicCap + 1] # 0

(***************************************************************************)
(* C24.  A short read at a fixed-size step (header, database blob,         *)
(* discriminant, the 8 reserved bytes, array-length prefix, a fixed-width  *)
(* value) ends the run at that step with the TruncatedInput error: no      *)
(* class is returned, and no step is taken after the run has ended.        *)
(***************************************************************************)
Remaining == Len(input) - pos

\* the elements of the array that frame f reads are nested read_class calls
ClassElement(f) ==
    IF CurProp(f).is_dynamic THEN CurProp(f).prop_type = "classref"
    ELSE CurProp(f).prop_type \in { "class", "classref" }

\* read_class is about to be called, for the root or for an array element
AtReadClass ==
    /\ pc = "class"
    /\ \/ stack = << >>
       \/ /\ stack # << >>
          /\ Top.k = "prop"
          /\ Len(Top.acc) < Top.n
          /\ ClassElement(Top)

\* an array element that is not a class is about to be read
AtElement ==
    /\ pc = "class"
    /\ stack # << >>
    /\ Top.k = "prop"
    /\ Len(Top.acc) < Top.n
    /\ ~ClassElement(Top)

\* the bytes of the fixed-size reads an element of frame f starts with (the
\* count byte of a custom element); 0 when it starts with none
ElementWidth(f) ==
    IF CurProp(f).is_dynamic
    THEN CASE CurProp(f).prop_type \in { "bool", "custom" } -> 1
           [] CurProp(f).prop_type = "s16" -> 2
           [] CurProp(f).prop_type \in { "s32", "u32" } -> 4
           [] OTHER -> 0
    ELSE FixedWidth(CurProp(f).prop_type)

\* the step about to be taken is a fixed-size read the stream is too short
\* for
ShortRead ==
    \/ pc = "header" /\ Remaining < HeaderSize
    \/ pc = "blob" /\ Remaining < DbSize
    \/ AtReadClass /\ Remaining < 4
    \/ /\ AtReadClass
       /\ Remaining \in 4..11
       /\ DiscIndex(StreamWord(pos)) < Len(objects)
    \/ /\ pc = "class"
       /\ stack # << >>
       /\ Top.k = "class"
       /\ Top.pi <= Len(SchemaProps(Top))
       /\ ~CurProp(Top).is_disabled
       /\ Remaining < 4
    \/ AtElement /\ ElementWidth(Top) > 0 /\ Remaining < ElementWidth(Top)

C24_TruncatedInput ==
    [][ /\ pc # "done"
        /\ ShortRead => /\ pc' = "done"
                        /\ outcome' = "err"
                        /\ ErrKind' = "TruncatedInput"
                        /\ result' = << >>
                        /\ lastCall' = lastCall ]_vars

\* the second u16 of an array of two is cut after its first byte
C24_Witness ==
    /\ pc = "done"
    /\ ErrKind = "TruncatedInput"
    /\ result = << >>
    /\ stack # << >>
    /\ Top.k = "prop"
    /\ CurProp(Top).prop_type = "u16"
    /\ Top.n = 2
    /\ Len(Top.acc) = 1
    /\ Remaining = 1

(***************************************************************************)
(* C27.  deserialize terminates on every input: every element of an array  *)
(* and every nested read_class call either moves the cursor forward or     *)
(* ends the run, every string of a custom element takes at least one byte, *)
(* a static string takes at most its cap and one byte more, and the cursor *)
(* never passes the end of the stream.  Every step of a run makes the      *)
(* measure (phase, schema records left, stream bytes left, depth of the    *)
(* call stack) smaller in the lexicographic order, so no run is infinite,  *)
(* and a run that has not ended always has a step to take.                 *)
(***************************************************************************)
PhaseRank ==
    CASE pc = "header" -> 4
      [] pc = "blob"   -> 3
      [] pc = "schema" -> 2
      [] pc = "class"  -> 1
      [] OTHER         -> 0
RecordsLeft == IF pc = "schema" THEN ObjNum - Len(objects) ELSE 0
Measure == << PhaseRank, RecordsLeft, Remaining, Len(stack) >>

\* a is below b in the lexicographic order of tuples of naturals
LexLess(a, b) ==
    \E i \in 1..Len(a) :
        /\ \A j \in 1..(i - 1) : a[j] = b[j]
        /\ a[i] < b[i]
        /\ \A j \in 1..Len(a) : a[j] >= 0

\* the value the step has just added to the array on top of the stack
Added == stack'[Len(stack)].acc[Len(Top.acc) + 1]
ElementRead == AtElement /\ pc' # "done"

Progress ==
    /\ (AtReadClass \/ AtElement) => (pc' = "done" \/ pos' > pos)
    /\ (ElementRead /\ Added.t = "Custom")
          => pos' >= pos + 1 + Len(Added.v)
    /\ (ElementRead /\ Added.t = "String")
          => /\ pos' = pos + Len(Added.v) + 1
             /\ Len(Added.v) <= StaticCap

\* the run has ended, or one of the steps of deserialize is due: the next
\* phase, the root call, the next property or the return of a class, the
\* next element or the return of a property
StepDue ==
    \/ pc \in { "header", "blob", "schema", "done" }
    \/ pc = "class" /\ stack = << >> /\ rootCalls = 0
    \/ pc = "class" /\ stack # << >> /\ Top.k = "class"
    \/ pc = "class" /\ stack # << >> /\ Top.k = "prop"
         /\ Len(Top.acc) <= Top.n

C27_Terminates ==
    /\ [][Progress /\ LexLess(Measure', Measure)]_vars
    /\ [](pos <= Len(input) /\ StepDue)

\* a run has ended having read an array of two nested classes, up to the
\* last byte of the stream
C27_Witness ==
    /\ pc = "done"
    /\ outcome = "ok"
    /\ pos = Len(input)
    /\ Len(result[1].props) = 1
    /\ Len(result[1].props[1][2]) = 2
    /\ result[1].props[1][2][2].t = "Class"
    /\ result[1].props[1][2][2].v # << >>

(***************************************************************************)
(* C28.  What read_class does with a discriminant d depends only on bits   *)
(* 1..15 of d, i = (d >> 1) & 0x7fff: it returns None exactly when         *)
(* i = 0x7fff, it fails on the index exactly when i is another value not   *)
(* below the number of schema records, and otherwise it decodes schema     *)
(* record i; bit 0 and the upper 16 bits play no part, and record 0x7fff   *)
(* is never selected.                                                      *)
(***************************************************************************)
C28_DiscriminantBits ==
    /\ entry # << >>
          => LET i == DiscIndex(entry[1].d)
             IN  /\ entry[1].fate = "none" <=> i = 32767
                 /\ entry[1].fate = "index_oob"
                       <=> (i # 32767 /\ i >= Len(objects))
                 /\ entry[1].fate \in { "frame", "io" } <=> i < Len(objects)
    /\ \A k \in 1..Len(stack) :
          /\ stack[k].obj = DiscIndex(stack[k].d) + 1
          /\ DiscIndex(stack[k].d) # 32767
    /\ lastCall # << >>
          => IF DiscIndex(lastCall[1].d) = 32767
             THEN lastCall[1].res = << >>
             ELSE /\ lastCall[1].res # << >>
                  /\ lastCall[1].res[1].class_type =
                        objects[DiscIndex(lastCall[1].d) + 1].dti

\* 0x00010002: read_class went on with schema record 1, the upper half set
C28_Witness ==
    /\ entry # << >>
    /\ entry[1].d = U32(2, 1)
    /\ entry[1].fate = "frame"
    /\ stack # << >>
    /\ Top.obj = 2

(***************************************************************************)
(* C29.  On a document whose header is valid and has object_num = 0,       *)
(* deserialize never returns a class and never reads the instance stream:  *)
(* no schema record is built, read_class is never called, the cursor never *)
(* passes the end of the blob, and once the blob is read the run is        *)
(* aborted there, whatever bytes follow.                                   *)
(***************************************************************************)
ValidEmptyHeader ==
    /\ Len(input) >= HeaderSize
    /\ SubSeq(input, 1, 4) = << 88, 70, 83, 0 >>
    /\ SubSeq(input, 5, 6) = << 16, 0 >>
    /\ SubSeq(input, 17, 20) = << 0, 0, 0, 0 >>

C29_EmptySchema ==
    ValidEmptyHeader
    => /\ result = << >>
       /\ outcome \in { "running", "panic", "err" }
       /\ objects = << >>
       /\ rootCalls = 0
       /\ entry = << >>
       /\ stack = << >>
       /\ pc \in { "header", "blob", "schema", "done" }
       /\ header # << >> => pos <= HeaderSize + DbSize
       /\ (pc = "done" /\ Len(input) >= HeaderSize + DbSize)
             => /\ outcome = "panic"
                /\ pos = HeaderSize + DbSize
                /\ database_bytes =
                      SubSeq(input, HeaderSize + 1, HeaderSize + DbSize)

\* the run was aborted at the end of the blob, 12 bytes before the end of
\* the stream
C29_Witness ==
    /\ ValidEmptyHeader
    /\ pc = "done"
    /\ outcome = "panic"
    /\ pos = HeaderSize + DbSize
    /\ Len(input) = pos + 12

(***************************************************************************)
(* Vocabulary of C25 and C30: a call of read_null_terminated_string.       *)
(***************************************************************************)
\* the bytes in front of the reader when the call is made
Ahead == SubSeq(Arg.bytes, Arg.pos + 1, Len(Arg.bytes))
NulsAhead == { i \in 1..Len(Ahead) : Ahead[i] = 0 }
\* 0-based index of the first NUL byte ahead (when there is one)
FirstNul == (CHOOSE i \in NulsAhead : \A j \in NulsAhead : i <= j) - 1
StringReturned ==
    Calling("read_null_terminated_string") /\ ret # << >>

(***************************************************************************)
(* C25.  read_null_terminated_string(reader, max) returns, for any bytes   *)
(* and any stream length (the empty stream and a stream that ends before a *)
(* NUL included), either an error or a string; the string is decoded from  *)
(* the first n bytes of the stream for some n <= max, none of them NUL (so *)
(* all of them precede the first NUL byte of the stream).                  *)
(***************************************************************************)
C25_StringTotal ==
    StringReturned
    => IF ret[1].ok
       THEN LET n == Len(ret[1].str)
            IN  /\ n <= Arg.max_size
                /\ n <= Len(Ahead)
                /\ \A i \in 1..n : Ahead[i] # 0
                /\ ret[1].str = ShiftJisDecode(SubSeq(Ahead, 1, n))
       ELSE ret[1].str = << >>

\* the stream ends before a NUL byte and before the cap: an error
C25_Witness ==
    /\ StringReturned
    /\ Ahead = << 65, 200 >>
    /\ Arg.max_size = 3
    /\ ~ret[1].ok

(***************************************************************************)
(* C30.  Bytes consumed by read_null_terminated_string(reader, max), k     *)
(* being the 0-based index of the first NUL byte ahead: when k <= max-1,   *)
(* the call consumes k+1 bytes and returns the k bytes before the NUL;     *)
(* when the first max bytes hold no NUL and max+1 bytes are there, it      *)
(* consumes max+1 bytes and returns the first max ones, byte max+1 being   *)
(* dropped; in the case left, the stream ending with neither a NUL nor     *)
(* max+1 bytes, it returns an error.                                       *)
(***************************************************************************)
C30_StringConsumption ==
    StringReturned
    => LET max == Arg.max_size
       IN  IF NulsAhead # { } /\ FirstNul <= max - 1
           THEN /\ ret[1].ok
                /\ ret[1].pos = Arg.pos + FirstNul + 1
                /\ ret[1].str = ShiftJisDecode(SubSeq(Ahead, 1, FirstNul))
           ELSE IF Len(Ahead) >= max + 1
           THEN /\ ret[1].ok
                /\ ret[1].pos = Arg.pos + max + 1
                /\ ret[1].str = ShiftJisDecode(SubSeq(Ahead, 1, max))
           ELSE ~ret[1].ok

\* the cap ended the scan: byte max+1 is a letter, it is consumed and is not
\* part of the string
C30_Witness ==
    /\ StringReturned
    /\ Arg.max_size = 2
    /\ Arg.pos = 1
    /\ Ahead = << 65, 200, 65 >>
    /\ ret[1].ok
    /\ ret[1].pos = Arg.pos + 3
    /\ Len(ret[1].str) = 2

(***************************************************************************)
(* deserialize called on two threads.  deserialize is a free function over *)
(* `reader: &mut R`: every variable of a call (the reader and its cursor,  *)
(* header, database_bytes, objects, the frames of read_class) is a local   *)
(* of that call, so a thread that is not scheduled keeps them as they are. *)
(* The static DTI_MAP is the one thing both calls touch.  A run alone      *)
(* comes first and its return is kept for comparison.                      *)
(***************************************************************************)
\* the locals of the deserialize call that is running
Locals ==
    [input |-> input, pos |-> pos, pc |-> pc, outcome |-> outcome,
     why |-> why, errHash |-> errHash, header |-> header,
     blobAllocated |-> blobAllocated, database_bytes |-> database_bytes,
     objects |-> objects, overlays |-> overlays, stack |-> stack,
     rootCalls |-> rootCalls, entry |-> entry, lastCall |-> lastCall,
     result |-> result]

\* the locals of a call of deserialize(reader) at its first statement, the
\* reader being at the start of doc
EntryLocals(doc) ==
    [input |-> doc, pos |-> 0, pc |-> "header", outcome |-> "running",
     why |-> "", errHash |-> << >>, header |-> << >>,
     blobAllocated |-> FALSE, database_bytes |-> << >>, objects |-> << >>,
     overlays |-> { }, stack |-> << >>, rootCalls |-> 0, entry |-> << >>,
     lastCall |-> << >>, result |-> << >>]

\* the running call is the one whose locals are ctx
Started(ctx) ==
    /\ input = ctx.input
    /\ pos = ctx.pos
    /\ pc = ctx.pc
    /\ outcome = ctx.outcome
    /\ why = ctx.why
    /\ errHash = ctx.errHash
    /\ header = ctx.header
    /\ blobAllocated = ctx.blobAllocated
    /\ database_bytes = ctx.database_bytes
    /\ objects = ctx.objects
    /\ overlays = ctx.overlays
    /\ stack = ctx.stack
    /\ rootCalls = ctx.rootCalls
    /\ entry = ctx.entry
    /\ lastCall = ctx.lastCall
    /\ result = ctx.result

\* the thread whose locals are ctx is scheduled
Resume(ctx) ==
    /\ input' = ctx.input
    /\ pos' = ctx.pos
    /\ pc' = ctx.pc
    /\ outcome' = ctx.outcome
    /\ why' = ctx.why
    /\ errHash' = ctx.errHash
    /\ header' = ctx.header
    /\ blobAllocated' = ctx.blobAllocated
    /\ database_bytes' = ctx.database_bytes
    /\ objects' = ctx.objects
    /\ overlays' = ctx.overlays
    /\ stack' = ctx.stack
    /\ rootCalls' = ctx.rootCalls
    /\ entry' = ctx.entry
    /\ lastCall' = ctx.lastCall
    /\ result' = ctx.result

\* what a call hands back to its caller, and where it left its reader
Returned(ctx) ==
    [outcome |-> ctx.outcome, why |-> ctx.why, result |-> ctx.result,
     pos |-> ctx.pos]

\* the eight bytes after a discriminant, in three fillings
ReservedValues == { Zeros(8), Unused, [ i \in 1..8 |-> 255 ] }

\* a root of record 1, whose one property is a dynamic classref array of
\* one node of the last record, which has no property; r1 and r2 are the
\* eight bytes after the two discriminants
ReservedDoc(r1, r2) ==
    Document(XFSMagic, 16, MaxObjectNum,
             Blob(TypeObjs(2, TRUE, MaxObjectNum), Identity(MaxObjectNum),
                  NoPtr),
             Le32(0) \o r1 \o Le32(1) \o Le32(2 * (MaxObjectNum - 1) + 1)
               \o r2)
ReservedFamily == { ReservedDoc(r1, r2) : r1, r2 \in ReservedValues }

\* the documents given to the two threads: the family above, the minimal
\* document, an empty schema table, a stream cut inside the eight bytes, a
\* u8 array, a custom element, a type hash the registry does not have
ConcDocs ==
    ReservedFamily
    \cup MinimalDocs
    \cup { HeaderBytes(XFSMagic, 16, 0, 24) \o MinimalBlob \o Le32(0)
             \o Unused,
           Cut(MinimalDoc(Unused), 3),
           Document(XFSMagic, 16, 2,
                    Blob(TypeObjs(4, FALSE, 2), Identity(2), NoPtr),
                    Le32(0) \o Unused \o Le32(MaxArrayLen)
                      \o [ i \in 1..MaxArrayLen |-> 200 + i ]),
           Document(XFSMagic, 16, 2,
                    Blob(TypeObjs(128, TRUE, 2), Identity(2), NoPtr),
                    Le32(0) \o Unused \o Le32(1) \o << 1, 104, 0 >>),
           Document(XFSMagic, 16, 1,
                    Blob(<< OSpec(<< PSpec(4, FALSE, "none") >>, "badhash") >>,
                         Identity(1), NoPtr),
                    Le32(0) \o Unused \o Le32(0)) }

\* one call of deserialize, alone in the process
ConcInit ==
    /\ NoCall
    /\ InputState_new
    /\ NoConc
    /\ \E doc \in ConcDocs : Started(EntryLocals(doc))

\* the call that ran alone has returned; the same call is made again on one
\* thread and a call on a document of its own on another
Spawn ==
    /\ pc = "done"
    /\ parked = << >>
    /\ alone = << >>
    /\ alone' = << Returned(Locals) >>
    /\ \E doc \in ConcDocs :
          parked' = << [ctx |-> EntryLocals(doc), first |-> FALSE] >>
    /\ Resume(EntryLocals(input))
    /\ UNCHANGED << registry, callVars, keyVars >>

\* the scheduler takes the running thread off and puts the other one on
Switch ==
    /\ parked # << >>
    /\ parked[1].ctx.pc # "done"
    /\ parked' = << [ctx |-> Locals, first |-> ~parked[1].first] >>
    /\ Resume(parked[1].ctx)
    /\ UNCHANGED << registry, alone, callVars, keyVars >>

ConcNext ==
    \/ ReadHeader
    \/ ReadBlob
    \/ SchemaEmpty
    \/ BuildObject
    \/ CallReadClass
    \/ PropStart
    \/ ReadElem
    \/ PropDone
    \/ ClassDone
    \/ Spawn
    \/ Switch

ConcSpec == ConcInit /\ [][ConcNext]_vars

\* the two calls: the one made on the document of the run alone, and the
\* other one
FirstCall  == IF parked[1].first THEN parked[1].ctx ELSE Locals
SecondCall == IF parked[1].first THEN Locals ELSE parked[1].ctx

(***************************************************************************)
(* C23.  A read_class call whose discriminant is not null and whose schema *)
(* index is in range reads eight bytes right after the four of the         *)
(* discriminant and does nothing with them: it goes on at offset +12 (or   *)
(* fails with the io error when fewer than eight bytes are left), the      *)
(* length prefix of its first property is read at +12, a node without      *)
(* properties ends at +12, and two calls on documents that differ in those *)
(* bytes only, at the root or at a nested node, return the same value and  *)
(* leave their readers at the same place.                                  *)
(***************************************************************************)
\* the document read byte by byte: byte at offset off, 16-bit word
DocByte(doc, off) == doc[off + 1]
DocWord(doc, off) == DocByte(doc, off) + 256 * DocByte(doc, off + 1)

\* offset of the root discriminant: the header and database_size bytes
RootAt(doc) == HeaderSize + DocWord(doc, 20)

\* the discriminant at offset off is not null and its index is below
\* object_num
NodeAt(doc, off) ==
    /\ off + 4 <= Len(doc)
    /\ (DocWord(doc, off) \div 2) % 32768 # 32767
    /\ (DocWord(doc, off) \div 2) % 32768 < DocWord(doc, 16)

\* raw type of the first property of the schema record behind slot 0
FirstPropType(doc) ==
    DocByte(doc, HeaderSize + DocWord(doc, HeaderSize) + ObjInfoSize + 8)

\* the root is of record 0, whose first property is a class or classref
\* array with an element, and that element is a node
NestedNode(doc) ==
    /\ Len(doc) >= HeaderSize + 8
    /\ Len(doc) >= RootAt(doc) + 20
    /\ NodeAt(doc, RootAt(doc))
    /\ (DocWord(doc, RootAt(doc)) \div 2) % 32768 = 0
    /\ DocWord(doc, HeaderSize + DocWord(doc, HeaderSize) + 8) % 32768 >= 1
    /\ FirstPropType(doc) \in { 1, 2 }
    /\ DocWord(doc, RootAt(doc) + 12) >= 1
    /\ NodeAt(doc, RootAt(doc) + 16)

\* offsets of the bytes that follow the discriminant of the root and of
\* that nested node
ReservedOffsets(doc) ==
    IF Len(doc) < HeaderSize THEN { }
    ELSE (IF NodeAt(doc, RootAt(doc))
          THEN (RootAt(doc) + 4)..(RootAt(doc) + 11) ELSE { })
         \cup (IF NestedNode(doc)
               THEN (RootAt(doc) + 20)..(RootAt(doc) + 27) ELSE { })

\* two documents that differ, if at all, in those bytes
SameButReserved(a, b) ==
    /\ Len(a) = Len(b)
    /\ \A i \in 1..Len(a) : a[i] # b[i] => (i - 1) \in ReservedOffsets(a)

\* the first span of a class, if it has one, starts 12 bytes after start
FirstAt12(start, spans) == spans # << >> => spans[1].from = start + 12

C23_ReservedBytes ==
    /\ \A k \in 1..Len(stack) :
          /\ stack[k].k = "class" => FirstAt12(stack[k].start, stack[k].spans)
          /\ (stack[k].k = "prop" /\ stack[k].pi = 1)
                => stack[k].from = stack[k].start + 12
    /\ entry # << >> =>
          /\ entry[1].fate = "frame" => entry[1].next = entry[1].start + 12
          /\ ( /\ DiscIndex(entry[1].d) # 32767
               /\ DiscIndex(entry[1].d) < Len(objects) )
                => (IF entry[1].start + 12 <= Len(input)
                    THEN entry[1].fate = "frame"
                    ELSE entry[1].fate = "io" /\ ErrKind = "TruncatedInput")
    /\ (lastCall # << >> /\ lastCall[1].res # << >>) =>
          /\ FirstAt12(lastCall[1].start, lastCall[1].spans)
          /\ Len(lastCall[1].spans) = Len(lastCall[1].res[1].props)
          /\ (lastCall[1].res[1].props = << >>
                => lastCall[1].end = lastCall[1].start + 12)
    /\ ( /\ parked # << >>
         /\ pc = "done"
         /\ parked[1].ctx.pc = "done"
         /\ SameButReserved(input, parked[1].ctx.input) )
          => Returned(Locals) = Returned(parked[1].ctx)

\* two calls have returned the same node of one property holding a node
\* without properties, from documents that differ in the eight bytes of the
\* root and in those of the nested node
C23_Witness ==
    /\ parked # << >>
    /\ pc = "done"
    /\ parked[1].ctx.pc = "done"
    /\ outcome = "ok"
    /\ SameButReserved(input, parked[1].ctx.input)
    /\ NestedNode(input)
    /\ \E i \in 4..11 : DocByte(input, RootAt(input) + i)
                          # DocByte(parked[1].ctx.input, RootAt(input) + i)
    /\ \E i \in 20..27 : DocByte(input, RootAt(input) + i)
                           # DocByte(parked[1].ctx.input, RootAt(input) + i)
    /\ pos = RootAt(input) + 28
    /\ Len(result[1].props) = 1
    /\ result = parked[1].ctx.result

(***************************************************************************)
(* C26.  Two deserialize calls whose steps interleave in any way, each on  *)
(* its own reader: the call on the document of the run alone returns what  *)
(* that run returned (the node, the error or the panic) with its reader at *)
(* the same place, so does the other call when it is given that document,  *)
(* and the registry is at every step the one generated at build time.      *)
(***************************************************************************)
C26_Isolation ==
    /\ registry = DTI_MAP
    /\ alone # << >> => parked # << >>
    /\ parked # << >> =>
          /\ alone # << >>
          /\ ( /\ FirstCall.input = SecondCall.input
               /\ FirstCall.pc = "done"
               /\ SecondCall.pc = "done" )
                => Returned(FirstCall) = Returned(SecondCall)
          /\ FirstCall.pc = "done" => Returned(FirstCall) = alone[1]
          /\ (SecondCall.pc = "done" /\ SecondCall.input = FirstCall.input)
                => Returned(SecondCall) = alone[1]
          /\ FirstCall.pc # "done" => FirstCall.outcome = "running"
          /\ SecondCall.pc # "done" => SecondCall.outcome = "running"

\* the first call has returned a node, as it did alone, after the second
\* call, on another document, had got as far as a read_class frame and
\* looked a type up in the registry
C26_Witness ==
    /\ parked # << >>
    /\ ~parked[1].first
    /\ pc = "done"
    /\ outcome = "ok"
    /\ Returned(Locals) = alone[1]
    /\ parked[1].ctx.pc = "class"
    /\ parked[1].ctx.stack # << >>
    /\ parked[1].ctx.objects # << >>
    /\ parked[1].ctx.input # input
====
